---- MODULE Spec2Model ----
(***************************************************************************)
(* Allokera: allocation of buffer pallets and AutoStore bins to order      *)
(* lines (allokera/logic/allocation.py), the SKRYMMANDE reclassifier and   *)
(* the refill calculator (logic/refill.py).                                *)
(*                                                                         *)
(* Text cells (locations, status texts, pick-face locations, source ids)   *)
(* are sequences of one-character strings, so that stripping, prefix,      *)
(* substring, upper-casing, case-insensitive search, text order and the    *)
(* extraction of the first integer are computed as the code computes them. *)
(* A character that does not print or lies above U+00FF is written by its  *)
(* code point, "U+0663".  Quantities are whole numbers (the unit is        *)
(* "kolli").  An article code is the stripped text of an article cell:     *)
(* every reader of an article cell strips it first (allocation.py 34, 53,  *)
(* 128, 214; refill.py 28, 41, 72, 93, 108, 125, 181).  Order ids, line    *)
(* ids and the values of the type and zone columns are strings.            *)
(***************************************************************************)
EXTENDS Integers, Sequences, FiniteSets, TLC

VARIABLES
    orders_raw,      \* input table: the order lines as read
    buffer_raw,      \* input table: the buffer units as read
    saldo_norm,      \* input table: normalised pick-face stock (Artikel, Plocksaldo, Plockplats)
    not_putaway_df,  \* input table: backlog not yet put away (artikel, antal)
    order_status_col,\* input: the order table has a status column
    buff_status_col, \* input: the buffer table has a status column
    orders,          \* allocate: order lines after normalisation and the status-35 filter
    pallet_queues,   \* allocate: article -> FIFO queue of pallets
    bin_queues,      \* allocate: article -> FIFO queue of AutoStore bins
    allocated_rows,  \* allocate: rows emitted so far; later the allocation result
    near_miss_rows,  \* allocate: near-miss records emitted so far
    line,            \* allocate: position in orders of the line being processed
    need,            \* allocate: remaining need of that line
    any_helpall,     \* allocate: the line consumed a whole pallet
    any_autostore,   \* allocate: the line took from a bin
    pq,              \* allocate: the article's pallet queue as the HELPALL stage found it
    result_df,       \* the allocation result after _reclassify_skrymmande
    refill_hp,       \* calculate_refill: main-pick refill rows
    refill_as,       \* calculate_refill: AutoStore refill rows
    columns,         \* the column sets of the four result tables, {} for a table without
    run,             \* number of the run on these inputs
    prev_result,     \* what allocate returned in the run before, <<>> in the first
    app,             \* gui: the fields of App that run_allocation and the open buttons use
    calls,           \* gui: the calls of run_allocation in progress, the nested ones last
    pc               \* position in the run

vars == <<orders_raw, buffer_raw, saldo_norm, not_putaway_df, order_status_col,
          buff_status_col, orders, pallet_queues, bin_queues, allocated_rows,
          near_miss_rows, line, need, any_helpall, any_autostore, pq, result_df,
          refill_hp, refill_as, columns, run, prev_result, app, calls,
          pc>>

(***************************************************************************)
(* Bounds of the model.                                                    *)
(***************************************************************************)
MaxDemand == 3      \* total requested quantity of an order batch (Spec)
MaxStock == 2       \* total quantity of a buffer table (Spec)
NearMaxNeed == 20   \* requested quantity of the order line (SpecNearMiss)
NearMaxOver == 4    \* a pallet holds at most the requested quantity plus this (SpecNearMiss)
NearMaxPallets == 2 \* pallets of the article (SpecNearMiss)
NearMaxBin == 1     \* quantity of the article's one bin, if any (SpecNearMiss)
ReclassMaxRows == 3 \* rows of the result and the pick-face table together (SpecReclassify)
RefillMaxQty == 7   \* demand of article A1 per source type (SpecRefill)
RefillMaxSmall == 2 \* demand of article A2 per source type (SpecRefill)
RefillMaxSaldo == 2 \* pick-face stock of an article (SpecRefill)
PipeMaxDemand == 2  \* summed quantity of the order lines (SpecPipeline)
PipeMaxStock == 1   \* summed quantity of the buffer units (SpecPipeline)
PipeMaxSaldo == 1   \* pick-face stock of an article (SpecPipeline)
MaxRuns == 2        \* runs on the same inputs (SpecTwice)
FifoMaxTime == 2    \* latest received time of a buffer unit (SpecFifo)
FifoMaxQty == 2     \* quantity of a unit and of an order line (SpecFifo)
FilterNeed == 7     \* quantity of the order line (SpecFilter)
FilterMaxOver == 1  \* largest excess of a unit's quantity over FilterNeed (SpecFilter)
DeadMaxQty == 2     \* largest requested quantity of an order line (SpecDeadLines)
KeyNeed == 7        \* smallest quantity of an order line and of a pallet (SpecKeys)
KeyMaxOver == 1     \* largest excess of a quantity over KeyNeed (SpecKeys)
ScopedMaxPad == 9   \* buffer rows of article A2 in front of those of A1 (SpecScoped)
ScopedMaxQty == 2   \* quantity of a pallet of A1 and of its order line (SpecScoped)

Articles == {"A1", "A2"}
\* the articles in the order of their codes (groupby sorts its keys)
ArticleOrder == <<"A1", "A2">>

(***************************************************************************)
(* Text helpers.                                                           *)
(***************************************************************************)
Min(a, b) == IF a <= b THEN a ELSE b
Max(a, b) == IF a >= b THEN a ELSE b

RECURSIVE SumSeq(_)
SumSeq(s) == IF s = <<>> THEN 0 ELSE Head(s) + SumSeq(Tail(s))

RECURSIVE SelectSeqOf(_, _)
\* pandas boolean-mask row selection: the rows of s whose index is in keep, in order
SelectSeqOf(s, keep) ==
    IF s = <<>> THEN <<>>
    ELSE LET n == Len(s)
             front == SelectSeqOf(SubSeq(s, 1, n - 1), keep)
         IN IF n \in keep THEN Append(front, s[n]) ELSE front

\* str.upper(): the 1525 characters it changes (Unicode 14, as Python 3.11 has it), in
\* code-point order, and below what each becomes; some become two or three characters.
\* A character above U+00FF is written by its code point, "U+0101".
LowerCase ==
    <<
      "a", "b", "c", "d", "e", "f", "g", "h", "i", "j", "k", "l", "m", "n", "o", "p", "q",
      "r", "s", "t", "u", "v", "w", "x", "y", "z", "µ", "ß", "à", "á", "â", "ã", "ä", "å",
      "æ", "ç", "è", "é", "ê", "ë", "ì", "í", "î", "ï", "ð", "ñ", "ò", "ó", "ô", "õ", "ö",
      "ø", "ù", "ú", "û", "ü", "ý", "þ", "ÿ", "U+0101", "U+0103", "U+0105", "U+0107",
      "U+0109", "U+010B", "U+010D", "U+010F", "U+0111", "U+0113", "U+0115", "U+0117",
      "U+0119", "U+011B", "U+011D", "U+011F", "U+0121", "U+0123", "U+0125", "U+0127",
      "U+0129", "U+012B", "U+012D", "U+012F", "U+0131", "U+0133", "U+0135", "U+0137",
      "U+013A", "U+013C", "U+013E", "U+0140", "U+0142", "U+0144", "U+0146", "U+0148",
      "U+0149", "U+014B", "U+014D", "U+014F", "U+0151", "U+0153", "U+0155", "U+0157",
      "U+0159", "U+015B", "U+015D", "U+015F", "U+0161", "U+0163", "U+0165", "U+0167",
      "U+0169", "U+016B", "U+016D", "U+016F", "U+0171", "U+0173", "U+0175", "U+0177",
      "U+017A", "U+017C", "U+017E", "U+017F", "U+0180", "U+0183", "U+0185", "U+0188",
      "U+018C", "U+0192", "U+0195", "U+0199", "U+019A", "U+019E", "U+01A1", "U+01A3",
      "U+01A5", "U+01A8", "U+01AD", "U+01B0", "U+01B4", "U+01B6", "U+01B9", "U+01BD",
      "U+01BF", "U+01C5", "U+01C6", "U+01C8", "U+01C9", "U+01CB", "U+01CC", "U+01CE",
      "U+01D0", "U+01D2", "U+01D4", "U+01D6", "U+01D8", "U+01DA", "U+01DC", "U+01DD",
      "U+01DF", "U+01E1", "U+01E3", "U+01E5", "U+01E7", "U+01E9", "U+01EB", "U+01ED",
      "U+01EF", "U+01F0", "U+01F2", "U+01F3", "U+01F5", "U+01F9", "U+01FB", "U+01FD",
      "U+01FF", "U+0201", "U+0203", "U+0205", "U+0207", "U+0209", "U+020B", "U+020D",
      "U+020F", "U+0211", "U+0213", "U+0215", "U+0217", "U+0219", "U+021B", "U+021D",
      "U+021F", "U+0223", "U+0225", "U+0227", "U+0229", "U+022B", "U+022D", "U+022F",
      "U+0231", "U+0233", "U+023C", "U+023F", "U+0240", "U+0242", "U+0247", "U+0249",
      "U+024B", "U+024D", "U+024F", "U+0250", "U+0251", "U+0252", "U+0253", "U+0254",
      "U+0256", "U+0257", "U+0259", "U+025B", "U+025C", "U+0260", "U+0261", "U+0263",
      "U+0265", "U+0266", "U+0268", "U+0269", "U+026A", "U+026B", "U+026C", "U+026F",
      "U+0271", "U+0272", "U+0275", "U+027D", "U+0280", "U+0282", "U+0283", "U+0287",
      "U+0288", "U+0289", "U+028A", "U+028B", "U+028C", "U+0292", "U+029D", "U+029E",
      "U+0345", "U+0371", "U+0373", "U+0377", "U+037B", "U+037C", "U+037D", "U+0390",
      "U+03AC", "U+03AD", "U+03AE", "U+03AF", "U+03B0", "U+03B1", "U+03B2", "U+03B3",
      "U+03B4", "U+03B5", "U+03B6", "U+03B7", "U+03B8", "U+03B9", "U+03BA", "U+03BB",
      "U+03BC", "U+03BD", "U+03BE", "U+03BF", "U+03C0", "U+03C1", "U+03C2", "U+03C3",
      "U+03C4", "U+03C5", "U+03C6", "U+03C7", "U+03C8", "U+03C9", "U+03CA", "U+03CB",
      "U+03CC", "U+03CD", "U+03CE", "U+03D0", "U+03D1", "U+03D5", "U+03D6", "U+03D7",
      "U+03D9", "U+03DB", "U+03DD", "U+03DF", "U+03E1", "U+03E3", "U+03E5", "U+03E7",
      "U+03E9", "U+03EB", "U+03ED", "U+03EF", "U+03F0", "U+03F1", "U+03F2", "U+03F3",
      "U+03F5", "U+03F8", "U+03FB", "U+0430", "U+0431", "U+0432", "U+0433", "U+0434",
      "U+0435", "U+0436", "U+0437", "U+0438", "U+0439", "U+043A", "U+043B", "U+043C",
      "U+043D", "U+043E", "U+043F", "U+0440", "U+0441", "U+0442", "U+0443", "U+0444",
      "U+0445", "U+0446", "U+0447", "U+0448", "U+0449", "U+044A", "U+044B", "U+044C",
      "U+044D", "U+044E", "U+044F", "U+0450", "U+0451", "U+0452", "U+0453", "U+0454",
      "U+0455", "U+0456", "U+0457", "U+0458", "U+0459", "U+045A", "U+045B", "U+045C",
      "U+045D", "U+045E", "U+045F", "U+0461", "U+0463", "U+0465", "U+0467", "U+0469",
      "U+046B", "U+046D", "U+046F", "U+0471", "U+0473", "U+0475", "U+0477", "U+0479",
      "U+047B", "U+047D", "U+047F", "U+0481", "U+048B", "U+048D", "U+048F", "U+0491",
      "U+0493", "U+0495", "U+0497", "U+0499", "U+049B", "U+049D", "U+049F", "U+04A1",
      "U+04A3", "U+04A5", "U+04A7", "U+04A9", "U+04AB", "U+04AD", "U+04AF", "U+04B1",
      "U+04B3", "U+04B5", "U+04B7", "U+04B9", "U+04BB", "U+04BD", "U+04BF", "U+04C2",
      "U+04C4", "U+04C6", "U+04C8", "U+04CA", "U+04CC", "U+04CE", "U+04CF", "U+04D1",
      "U+04D3", "U+04D5", "U+04D7", "U+04D9", "U+04DB", "U+04DD", "U+04DF", "U+04E1",
      "U+04E3", "U+04E5", "U+04E7", "U+04E9", "U+04EB", "U+04ED", "U+04EF", "U+04F1",
      "U+04F3", "U+04F5", "U+04F7", "U+04F9", "U+04FB", "U+04FD", "U+04FF", "U+0501",
      "U+0503", "U+0505", "U+0507", "U+0509", "U+050B", "U+050D", "U+050F", "U+0511",
      "U+0513", "U+0515", "U+0517", "U+0519", "U+051B", "U+051D", "U+051F", "U+0521",
      "U+0523", "U+0525", "U+0527", "U+0529", "U+052B", "U+052D", "U+052F", "U+0561",
      "U+0562", "U+0563", "U+0564", "U+0565", "U+0566", "U+0567", "U+0568", "U+0569",
      "U+056A", "U+056B", "U+056C", "U+056D", "U+056E", "U+056F", "U+0570", "U+0571",
      "U+0572", "U+0573", "U+0574", "U+0575", "U+0576", "U+0577", "U+0578", "U+0579",
      "U+057A", "U+057B", "U+057C", "U+057D", "U+057E", "U+057F", "U+0580", "U+0581",
      "U+0582", "U+0583", "U+0584", "U+0585", "U+0586", "U+0587", "U+10D0", "U+10D1",
      "U+10D2", "U+10D3", "U+10D4", "U+10D5", "U+10D6", "U+10D7", "U+10D8", "U+10D9",
      "U+10DA", "U+10DB", "U+10DC", "U+10DD", "U+10DE", "U+10DF", "U+10E0", "U+10E1",
      "U+10E2", "U+10E3", "U+10E4", "U+10E5", "U+10E6", "U+10E7", "U+10E8", "U+10E9",
      "U+10EA", "U+10EB", "U+10EC", "U+10ED", "U+10EE", "U+10EF", "U+10F0", "U+10F1",
      "U+10F2", "U+10F3", "U+10F4", "U+10F5", "U+10F6", "U+10F7", "U+10F8", "U+10F9",
      "U+10FA", "U+10FD", "U+10FE", "U+10FF", "U+13F8", "U+13F9", "U+13FA", "U+13FB",
      "U+13FC", "U+13FD", "U+1C80", "U+1C81", "U+1C82", "U+1C83", "U+1C84", "U+1C85",
      "U+1C86", "U+1C87", "U+1C88", "U+1D79", "U+1D7D", "U+1D8E", "U+1E01", "U+1E03",
      "U+1E05", "U+1E07", "U+1E09", "U+1E0B", "U+1E0D", "U+1E0F", "U+1E11", "U+1E13",
      "U+1E15", "U+1E17", "U+1E19", "U+1E1B", "U+1E1D", "U+1E1F", "U+1E21", "U+1E23",
      "U+1E25", "U+1E27", "U+1E29", "U+1E2B", "U+1E2D", "U+1E2F", "U+1E31", "U+1E33",
      "U+1E35", "U+1E37", "U+1E39", "U+1E3B", "U+1E3D", "U+1E3F", "U+1E41", "U+1E43",
      "U+1E45", "U+1E47", "U+1E49", "U+1E4B", "U+1E4D", "U+1E4F", "U+1E51", "U+1E53",
      "U+1E55", "U+1E57", "U+1E59", "U+1E5B", "U+1E5D", "U+1E5F", "U+1E61", "U+1E63",
      "U+1E65", "U+1E67", "U+1E69", "U+1E6B", "U+1E6D", "U+1E6F", "U+1E71", "U+1E73",
      "U+1E75", "U+1E77", "U+1E79", "U+1E7B", "U+1E7D", "U+1E7F", "U+1E81", "U+1E83",
      "U+1E85", "U+1E87", "U+1E89", "U+1E8B", "U+1E8D", "U+1E8F", "U+1E91", "U+1E93",
      "U+1E95", "U+1E96", "U+1E97", "U+1E98", "U+1E99", "U+1E9A", "U+1E9B", "U+1EA1",
      "U+1EA3", "U+1EA5", "U+1EA7", "U+1EA9", "U+1EAB", "U+1EAD", "U+1EAF", "U+1EB1",
      "U+1EB3", "U+1EB5", "U+1EB7", "U+1EB9", "U+1EBB", "U+1EBD", "U+1EBF", "U+1EC1",
      "U+1EC3", "U+1EC5", "U+1EC7", "U+1EC9", "U+1ECB", "U+1ECD", "U+1ECF", "U+1ED1",
      "U+1ED3", "U+1ED5", "U+1ED7", "U+1ED9", "U+1EDB", "U+1EDD", "U+1EDF", "U+1EE1",
      "U+1EE3", "U+1EE5", "U+1EE7", "U+1EE9", "U+1EEB", "U+1EED", "U+1EEF", "U+1EF1",
      "U+1EF3", "U+1EF5", "U+1EF7", "U+1EF9", "U+1EFB", "U+1EFD", "U+1EFF", "U+1F00",
      "U+1F01", "U+1F02", "U+1F03", "U+1F04", "U+1F05", "U+1F06", "U+1F07", "U+1F10",
      "U+1F11", "U+1F12", "U+1F13", "U+1F14", "U+1F15", "U+1F20", "U+1F21", "U+1F22",
      "U+1F23", "U+1F24", "U+1F25", "U+1F26", "U+1F27", "U+1F30", "U+1F31", "U+1F32",
      "U+1F33", "U+1F34", "U+1F35", "U+1F36", "U+1F37", "U+1F40", "U+1F41", "U+1F42",
      "U+1F43", "U+1F44", "U+1F45", "U+1F50", "U+1F51", "U+1F52", "U+1F53", "U+1F54",
      "U+1F55", "U+1F56", "U+1F57", "U+1F60", "U+1F61", "U+1F62", "U+1F63", "U+1F64",
      "U+1F65", "U+1F66", "U+1F67", "U+1F70", "U+1F71", "U+1F72", "U+1F73", "U+1F74",
      "U+1F75", "U+1F76", "U+1F77", "U+1F78", "U+1F79", "U+1F7A", "U+1F7B", "U+1F7C",
      "U+1F7D", "U+1F80", "U+1F81", "U+1F82", "U+1F83", "U+1F84", "U+1F85", "U+1F86",
      "U+1F87", "U+1F88", "U+1F89", "U+1F8A", "U+1F8B", "U+1F8C", "U+1F8D", "U+1F8E",
      "U+1F8F", "U+1F90", "U+1F91", "U+1F92", "U+1F93", "U+1F94", "U+1F95", "U+1F96",
      "U+1F97", "U+1F98", "U+1F99", "U+1F9A", "U+1F9B", "U+1F9C", "U+1F9D", "U+1F9E",
      "U+1F9F", "U+1FA0", "U+1FA1", "U+1FA2", "U+1FA3", "U+1FA4", "U+1FA5", "U+1FA6",
      "U+1FA7", "U+1FA8", "U+1FA9", "U+1FAA", "U+1FAB", "U+1FAC", "U+1FAD", "U+1FAE",
      "U+1FAF", "U+1FB0", "U+1FB1", "U+1FB2", "U+1FB3", "U+1FB4", "U+1FB6", "U+1FB7",
      "U+1FBC", "U+1FBE", "U+1FC2", "U+1FC3", "U+1FC4", "U+1FC6", "U+1FC7", "U+1FCC",
      "U+1FD0", "U+1FD1", "U+1FD2", "U+1FD3", "U+1FD6", "U+1FD7", "U+1FE0", "U+1FE1",
      "U+1FE2", "U+1FE3", "U+1FE4", "U+1FE5", "U+1FE6", "U+1FE7", "U+1FF2", "U+1FF3",
      "U+1FF4", "U+1FF6", "U+1FF7", "U+1FFC", "U+214E", "U+2170", "U+2171", "U+2172",
      "U+2173", "U+2174", "U+2175", "U+2176", "U+2177", "U+2178", "U+2179", "U+217A",
      "U+217B", "U+217C", "U+217D", "U+217E", "U+217F", "U+2184", "U+24D0", "U+24D1",
      "U+24D2", "U+24D3", "U+24D4", "U+24D5", "U+24D6", "U+24D7", "U+24D8", "U+24D9",
      "U+24DA", "U+24DB", "U+24DC", "U+24DD", "U+24DE", "U+24DF", "U+24E0", "U+24E1",
      "U+24E2", "U+24E3", "U+24E4", "U+24E5", "U+24E6", "U+24E7", "U+24E8", "U+24E9",
      "U+2C30", "U+2C31", "U+2C32", "U+2C33", "U+2C34", "U+2C35", "U+2C36", "U+2C37",
      "U+2C38", "U+2C39", "U+2C3A", "U+2C3B", "U+2C3C", "U+2C3D", "U+2C3E", "U+2C3F",
      "U+2C40", "U+2C41", "U+2C42", "U+2C43", "U+2C44", "U+2C45", "U+2C46", "U+2C47",
      "U+2C48", "U+2C49", "U+2C4A", "U+2C4B", "U+2C4C", "U+2C4D", "U+2C4E", "U+2C4F",
      "U+2C50", "U+2C51", "U+2C52", "U+2C53", "U+2C54", "U+2C55", "U+2C56", "U+2C57",
      "U+2C58", "U+2C59", "U+2C5A", "U+2C5B", "U+2C5C", "U+2C5D", "U+2C5E", "U+2C5F",
      "U+2C61", "U+2C65", "U+2C66", "U+2C68", "U+2C6A", "U+2C6C", "U+2C73", "U+2C76",
      "U+2C81", "U+2C83", "U+2C85", "U+2C87", "U+2C89", "U+2C8B", "U+2C8D", "U+2C8F",
      "U+2C91", "U+2C93", "U+2C95", "U+2C97", "U+2C99", "U+2C9B", "U+2C9D", "U+2C9F",
      "U+2CA1", "U+2CA3", "U+2CA5", "U+2CA7", "U+2CA9", "U+2CAB", "U+2CAD", "U+2CAF",
      "U+2CB1", "U+2CB3", "U+2CB5", "U+2CB7", "U+2CB9", "U+2CBB", "U+2CBD", "U+2CBF",
      "U+2CC1", "U+2CC3", "U+2CC5", "U+2CC7", "U+2CC9", "U+2CCB", "U+2CCD", "U+2CCF",
      "U+2CD1", "U+2CD3", "U+2CD5", "U+2CD7", "U+2CD9", "U+2CDB", "U+2CDD", "U+2CDF",
      "U+2CE1", "U+2CE3", "U+2CEC", "U+2CEE", "U+2CF3", "U+2D00", "U+2D01", "U+2D02",
      "U+2D03", "U+2D04", "U+2D05", "U+2D06", "U+2D07", "U+2D08", "U+2D09", "U+2D0A",
      "U+2D0B", "U+2D0C", "U+2D0D", "U+2D0E", "U+2D0F", "U+2D10", "U+2D11", "U+2D12",
      "U+2D13", "U+2D14", "U+2D15", "U+2D16", "U+2D17", "U+2D18", "U+2D19", "U+2D1A",
      "U+2D1B", "U+2D1C", "U+2D1D", "U+2D1E", "U+2D1F", "U+2D20", "U+2D21", "U+2D22",
      "U+2D23", "U+2D24", "U+2D25", "U+2D27", "U+2D2D", "U+A641", "U+A643", "U+A645",
      "U+A647", "U+A649", "U+A64B", "U+A64D", "U+A64F", "U+A651", "U+A653", "U+A655",
      "U+A657", "U+A659", "U+A65B", "U+A65D", "U+A65F", "U+A661", "U+A663", "U+A665",
      "U+A667", "U+A669", "U+A66B", "U+A66D", "U+A681", "U+A683", "U+A685", "U+A687",
      "U+A689", "U+A68B", "U+A68D", "U+A68F", "U+A691", "U+A693", "U+A695", "U+A697",
      "U+A699", "U+A69B", "U+A723", "U+A725", "U+A727", "U+A729", "U+A72B", "U+A72D",
      "U+A72F", "U+A733", "U+A735", "U+A737", "U+A739", "U+A73B", "U+A73D", "U+A73F",
      "U+A741", "U+A743", "U+A745", "U+A747", "U+A749", "U+A74B", "U+A74D", "U+A74F",
      "U+A751", "U+A753", "U+A755", "U+A757", "U+A759", "U+A75B", "U+A75D", "U+A75F",
      "U+A761", "U+A763", "U+A765", "U+A767", "U+A769", "U+A76B", "U+A76D", "U+A76F",
      "U+A77A", "U+A77C", "U+A77F", "U+A781", "U+A783", "U+A785", "U+A787", "U+A78C",
      "U+A791", "U+A793", "U+A794", "U+A797", "U+A799", "U+A79B", "U+A79D", "U+A79F",
      "U+A7A1", "U+A7A3", "U+A7A5", "U+A7A7", "U+A7A9", "U+A7B5", "U+A7B7", "U+A7B9",
      "U+A7BB", "U+A7BD", "U+A7BF", "U+A7C1", "U+A7C3", "U+A7C8", "U+A7CA", "U+A7D1",
      "U+A7D7", "U+A7D9", "U+A7F6", "U+AB53", "U+AB70", "U+AB71", "U+AB72", "U+AB73",
      "U+AB74", "U+AB75", "U+AB76", "U+AB77", "U+AB78", "U+AB79", "U+AB7A", "U+AB7B",
      "U+AB7C", "U+AB7D", "U+AB7E", "U+AB7F", "U+AB80", "U+AB81", "U+AB82", "U+AB83",
      "U+AB84", "U+AB85", "U+AB86", "U+AB87", "U+AB88", "U+AB89", "U+AB8A", "U+AB8B",
      "U+AB8C", "U+AB8D", "U+AB8E", "U+AB8F", "U+AB90", "U+AB91", "U+AB92", "U+AB93",
      "U+AB94", "U+AB95", "U+AB96", "U+AB97", "U+AB98", "U+AB99", "U+AB9A", "U+AB9B",
      "U+AB9C", "U+AB9D", "U+AB9E", "U+AB9F", "U+ABA0", "U+ABA1", "U+ABA2", "U+ABA3",
      "U+ABA4", "U+ABA5", "U+ABA6", "U+ABA7", "U+ABA8", "U+ABA9", "U+ABAA", "U+ABAB",
      "U+ABAC", "U+ABAD", "U+ABAE", "U+ABAF", "U+ABB0", "U+ABB1", "U+ABB2", "U+ABB3",
      "U+ABB4", "U+ABB5", "U+ABB6", "U+ABB7", "U+ABB8", "U+ABB9", "U+ABBA", "U+ABBB",
      "U+ABBC", "U+ABBD", "U+ABBE", "U+ABBF", "U+FB00", "U+FB01", "U+FB02", "U+FB03",
      "U+FB04", "U+FB05", "U+FB06", "U+FB13", "U+FB14", "U+FB15", "U+FB16", "U+FB17",
      "U+FF41", "U+FF42", "U+FF43", "U+FF44", "U+FF45", "U+FF46", "U+FF47", "U+FF48",
      "U+FF49", "U+FF4A", "U+FF4B", "U+FF4C", "U+FF4D", "U+FF4E", "U+FF4F", "U+FF50",
      "U+FF51", "U+FF52", "U+FF53", "U+FF54", "U+FF55", "U+FF56", "U+FF57", "U+FF58",
      "U+FF59", "U+FF5A", "U+10428", "U+10429", "U+1042A", "U+1042B", "U+1042C", "U+1042D",
      "U+1042E", "U+1042F", "U+10430", "U+10431", "U+10432", "U+10433", "U+10434",
      "U+10435", "U+10436", "U+10437", "U+10438", "U+10439", "U+1043A", "U+1043B",
      "U+1043C", "U+1043D", "U+1043E", "U+1043F", "U+10440", "U+10441", "U+10442",
      "U+10443", "U+10444", "U+10445", "U+10446", "U+10447", "U+10448", "U+10449",
      "U+1044A", "U+1044B", "U+1044C", "U+1044D", "U+1044E", "U+1044F", "U+104D8",
      "U+104D9", "U+104DA", "U+104DB", "U+104DC", "U+104DD", "U+104DE", "U+104DF",
      "U+104E0", "U+104E1", "U+104E2", "U+104E3", "U+104E4", "U+104E5", "U+104E6",
      "U+104E7", "U+104E8", "U+104E9", "U+104EA", "U+104EB", "U+104EC", "U+104ED",
      "U+104EE", "U+104EF", "U+104F0", "U+104F1", "U+104F2", "U+104F3", "U+104F4",
      "U+104F5", "U+104F6", "U+104F7", "U+104F8", "U+104F9", "U+104FA", "U+104FB",
      "U+10597", "U+10598", "U+10599", "U+1059A", "U+1059B", "U+1059C", "U+1059D",
      "U+1059E", "U+1059F", "U+105A0", "U+105A1", "U+105A3", "U+105A4", "U+105A5",
      "U+105A6", "U+105A7", "U+105A8", "U+105A9", "U+105AA", "U+105AB", "U+105AC",
      "U+105AD", "U+105AE", "U+105AF", "U+105B0", "U+105B1", "U+105B3", "U+105B4",
      "U+105B5", "U+105B6", "U+105B7", "U+105B8", "U+105B9", "U+105BB", "U+105BC",
      "U+10CC0", "U+10CC1", "U+10CC2", "U+10CC3", "U+10CC4", "U+10CC5", "U+10CC6",
      "U+10CC7", "U+10CC8", "U+10CC9", "U+10CCA", "U+10CCB", "U+10CCC", "U+10CCD",
      "U+10CCE", "U+10CCF", "U+10CD0", "U+10CD1", "U+10CD2", "U+10CD3", "U+10CD4",
      "U+10CD5", "U+10CD6", "U+10CD7", "U+10CD8", "U+10CD9", "U+10CDA", "U+10CDB",
      "U+10CDC", "U+10CDD", "U+10CDE", "U+10CDF", "U+10CE0", "U+10CE1", "U+10CE2",
      "U+10CE3", "U+10CE4", "U+10CE5", "U+10CE6", "U+10CE7", "U+10CE8", "U+10CE9",
      "U+10CEA", "U+10CEB", "U+10CEC", "U+10CED", "U+10CEE", "U+10CEF", "U+10CF0",
      "U+10CF1", "U+10CF2", "U+118C0", "U+118C1", "U+118C2", "U+118C3", "U+118C4",
      "U+118C5", "U+118C6", "U+118C7", "U+118C8", "U+118C9", "U+118CA", "U+118CB",
      "U+118CC", "U+118CD", "U+118CE", "U+118CF", "U+118D0", "U+118D1", "U+118D2",
      "U+118D3", "U+118D4", "U+118D5", "U+118D6", "U+118D7", "U+118D8", "U+118D9",
      "U+118DA", "U+118DB", "U+118DC", "U+118DD", "U+118DE", "U+118DF", "U+16E60",
      "U+16E61", "U+16E62", "U+16E63", "U+16E64", "U+16E65", "U+16E66", "U+16E67",
      "U+16E68", "U+16E69", "U+16E6A", "U+16E6B", "U+16E6C", "U+16E6D", "U+16E6E",
      "U+16E6F", "U+16E70", "U+16E71", "U+16E72", "U+16E73", "U+16E74", "U+16E75",
      "U+16E76", "U+16E77", "U+16E78", "U+16E79", "U+16E7A", "U+16E7B", "U+16E7C",
      "U+16E7D", "U+16E7E", "U+16E7F", "U+1E922", "U+1E923", "U+1E924", "U+1E925",
      "U+1E926", "U+1E927", "U+1E928", "U+1E929", "U+1E92A", "U+1E92B", "U+1E92C",
      "U+1E92D", "U+1E92E", "U+1E92F", "U+1E930", "U+1E931", "U+1E932", "U+1E933",
      "U+1E934", "U+1E935", "U+1E936", "U+1E937", "U+1E938", "U+1E939", "U+1E93A",
      "U+1E93B", "U+1E93C", "U+1E93D", "U+1E93E", "U+1E93F", "U+1E940", "U+1E941",
      "U+1E942", "U+1E943"
    >>

UpperCase ==
    <<
      <<"A">>, <<"B">>, <<"C">>, <<"D">>, <<"E">>, <<"F">>, <<"G">>, <<"H">>, <<"I">>,
      <<"J">>, <<"K">>, <<"L">>, <<"M">>, <<"N">>, <<"O">>, <<"P">>, <<"Q">>, <<"R">>,
      <<"S">>, <<"T">>, <<"U">>, <<"V">>, <<"W">>, <<"X">>, <<"Y">>, <<"Z">>, <<"U+039C">>,
      <<"S", "S">>, <<"À">>, <<"Á">>, <<"Â">>, <<"Ã">>, <<"Ä">>, <<"Å">>, <<"Æ">>, <<"Ç">>,
      <<"È">>, <<"É">>, <<"Ê">>, <<"Ë">>, <<"Ì">>, <<"Í">>, <<"Î">>, <<"Ï">>, <<"Ð">>,
      <<"Ñ">>, <<"Ò">>, <<"Ó">>, <<"Ô">>, <<"Õ">>, <<"Ö">>, <<"Ø">>, <<"Ù">>, <<"Ú">>,
      <<"Û">>, <<"Ü">>, <<"Ý">>, <<"Þ">>, <<"U+0178">>, <<"U+0100">>, <<"U+0102">>,
      <<"U+0104">>, <<"U+0106">>, <<"U+0108">>, <<"U+010A">>, <<"U+010C">>, <<"U+010E">>,
      <<"U+0110">>, <<"U+0112">>, <<"U+0114">>, <<"U+0116">>, <<"U+0118">>, <<"U+011A">>,
      <<"U+011C">>, <<"U+011E">>, <<"U+0120">>, <<"U+0122">>, <<"U+0124">>, <<"U+0126">>,
      <<"U+0128">>, <<"U+012A">>, <<"U+012C">>, <<"U+012E">>, <<"I">>, <<"U+0132">>,
      <<"U+0134">>, <<"U+0136">>, <<"U+0139">>, <<"U+013B">>, <<"U+013D">>, <<"U+013F">>,
      <<"U+0141">>, <<"U+0143">>, <<"U+0145">>, <<"U+0147">>, <<"U+02BC", "N">>,
      <<"U+014A">>, <<"U+014C">>, <<"U+014E">>, <<"U+0150">>, <<"U+0152">>, <<"U+0154">>,
      <<"U+0156">>, <<"U+0158">>, <<"U+015A">>, <<"U+015C">>, <<"U+015E">>, <<"U+0160">>,
      <<"U+0162">>, <<"U+0164">>, <<"U+0166">>, <<"U+0168">>, <<"U+016A">>, <<"U+016C">>,
      <<"U+016E">>, <<"U+0170">>, <<"U+0172">>, <<"U+0174">>, <<"U+0176">>, <<"U+0179">>,
      <<"U+017B">>, <<"U+017D">>, <<"S">>, <<"U+0243">>, <<"U+0182">>, <<"U+0184">>,
      <<"U+0187">>, <<"U+018B">>, <<"U+0191">>, <<"U+01F6">>, <<"U+0198">>, <<"U+023D">>,
      <<"U+0220">>, <<"U+01A0">>, <<"U+01A2">>, <<"U+01A4">>, <<"U+01A7">>, <<"U+01AC">>,
      <<"U+01AF">>, <<"U+01B3">>, <<"U+01B5">>, <<"U+01B8">>, <<"U+01BC">>, <<"U+01F7">>,
      <<"U+01C4">>, <<"U+01C4">>, <<"U+01C7">>, <<"U+01C7">>, <<"U+01CA">>, <<"U+01CA">>,
      <<"U+01CD">>, <<"U+01CF">>, <<"U+01D1">>, <<"U+01D3">>, <<"U+01D5">>, <<"U+01D7">>,
      <<"U+01D9">>, <<"U+01DB">>, <<"U+018E">>, <<"U+01DE">>, <<"U+01E0">>, <<"U+01E2">>,
      <<"U+01E4">>, <<"U+01E6">>, <<"U+01E8">>, <<"U+01EA">>, <<"U+01EC">>, <<"U+01EE">>,
      <<"J", "U+030C">>, <<"U+01F1">>, <<"U+01F1">>, <<"U+01F4">>, <<"U+01F8">>,
      <<"U+01FA">>, <<"U+01FC">>, <<"U+01FE">>, <<"U+0200">>, <<"U+0202">>, <<"U+0204">>,
      <<"U+0206">>, <<"U+0208">>, <<"U+020A">>, <<"U+020C">>, <<"U+020E">>, <<"U+0210">>,
      <<"U+0212">>, <<"U+0214">>, <<"U+0216">>, <<"U+0218">>, <<"U+021A">>, <<"U+021C">>,
      <<"U+021E">>, <<"U+0222">>, <<"U+0224">>, <<"U+0226">>, <<"U+0228">>, <<"U+022A">>,
      <<"U+022C">>, <<"U+022E">>, <<"U+0230">>, <<"U+0232">>, <<"U+023B">>, <<"U+2C7E">>,
      <<"U+2C7F">>, <<"U+0241">>, <<"U+0246">>, <<"U+0248">>, <<"U+024A">>, <<"U+024C">>,
      <<"U+024E">>, <<"U+2C6F">>, <<"U+2C6D">>, <<"U+2C70">>, <<"U+0181">>, <<"U+0186">>,
      <<"U+0189">>, <<"U+018A">>, <<"U+018F">>, <<"U+0190">>, <<"U+A7AB">>, <<"U+0193">>,
      <<"U+A7AC">>, <<"U+0194">>, <<"U+A78D">>, <<"U+A7AA">>, <<"U+0197">>, <<"U+0196">>,
      <<"U+A7AE">>, <<"U+2C62">>, <<"U+A7AD">>, <<"U+019C">>, <<"U+2C6E">>, <<"U+019D">>,
      <<"U+019F">>, <<"U+2C64">>, <<"U+01A6">>, <<"U+A7C5">>, <<"U+01A9">>, <<"U+A7B1">>,
      <<"U+01AE">>, <<"U+0244">>, <<"U+01B1">>, <<"U+01B2">>, <<"U+0245">>, <<"U+01B7">>,
      <<"U+A7B2">>, <<"U+A7B0">>, <<"U+0399">>, <<"U+0370">>, <<"U+0372">>, <<"U+0376">>,
      <<"U+03FD">>, <<"U+03FE">>, <<"U+03FF">>, <<"U+0399", "U+0308", "U+0301">>,
      <<"U+0386">>, <<"U+0388">>, <<"U+0389">>, <<"U+038A">>,
      <<"U+03A5", "U+0308", "U+0301">>, <<"U+0391">>, <<"U+0392">>, <<"U+0393">>,
      <<"U+0394">>, <<"U+0395">>, <<"U+0396">>, <<"U+0397">>, <<"U+0398">>, <<"U+0399">>,
      <<"U+039A">>, <<"U+039B">>, <<"U+039C">>, <<"U+039D">>, <<"U+039E">>, <<"U+039F">>,
      <<"U+03A0">>, <<"U+03A1">>, <<"U+03A3">>, <<"U+03A3">>, <<"U+03A4">>, <<"U+03A5">>,
      <<"U+03A6">>, <<"U+03A7">>, <<"U+03A8">>, <<"U+03A9">>, <<"U+03AA">>, <<"U+03AB">>,
      <<"U+038C">>, <<"U+038E">>, <<"U+038F">>, <<"U+0392">>, <<"U+0398">>, <<"U+03A6">>,
      <<"U+03A0">>, <<"U+03CF">>, <<"U+03D8">>, <<"U+03DA">>, <<"U+03DC">>, <<"U+03DE">>,
      <<"U+03E0">>, <<"U+03E2">>, <<"U+03E4">>, <<"U+03E6">>, <<"U+03E8">>, <<"U+03EA">>,
      <<"U+03EC">>, <<"U+03EE">>, <<"U+039A">>, <<"U+03A1">>, <<"U+03F9">>, <<"U+037F">>,
      <<"U+0395">>, <<"U+03F7">>, <<"U+03FA">>, <<"U+0410">>, <<"U+0411">>, <<"U+0412">>,
      <<"U+0413">>, <<"U+0414">>, <<"U+0415">>, <<"U+0416">>, <<"U+0417">>, <<"U+0418">>,
      <<"U+0419">>, <<"U+041A">>, <<"U+041B">>, <<"U+041C">>, <<"U+041D">>, <<"U+041E">>,
      <<"U+041F">>, <<"U+0420">>, <<"U+0421">>, <<"U+0422">>, <<"U+0423">>, <<"U+0424">>,
      <<"U+0425">>, <<"U+0426">>, <<"U+0427">>, <<"U+0428">>, <<"U+0429">>, <<"U+042A">>,
      <<"U+042B">>, <<"U+042C">>, <<"U+042D">>, <<"U+042E">>, <<"U+042F">>, <<"U+0400">>,
      <<"U+0401">>, <<"U+0402">>, <<"U+0403">>, <<"U+0404">>, <<"U+0405">>, <<"U+0406">>,
      <<"U+0407">>, <<"U+0408">>, <<"U+0409">>, <<"U+040A">>, <<"U+040B">>, <<"U+040C">>,
      <<"U+040D">>, <<"U+040E">>, <<"U+040F">>, <<"U+0460">>, <<"U+0462">>, <<"U+0464">>,
      <<"U+0466">>, <<"U+0468">>, <<"U+046A">>, <<"U+046C">>, <<"U+046E">>, <<"U+0470">>,
      <<"U+0472">>, <<"U+0474">>, <<"U+0476">>, <<"U+0478">>, <<"U+047A">>, <<"U+047C">>,
      <<"U+047E">>, <<"U+0480">>, <<"U+048A">>, <<"U+048C">>, <<"U+048E">>, <<"U+0490">>,
      <<"U+0492">>, <<"U+0494">>, <<"U+0496">>, <<"U+0498">>, <<"U+049A">>, <<"U+049C">>,
      <<"U+049E">>, <<"U+04A0">>, <<"U+04A2">>, <<"U+04A4">>, <<"U+04A6">>, <<"U+04A8">>,
      <<"U+04AA">>, <<"U+04AC">>, <<"U+04AE">>, <<"U+04B0">>, <<"U+04B2">>, <<"U+04B4">>,
      <<"U+04B6">>, <<"U+04B8">>, <<"U+04BA">>, <<"U+04BC">>, <<"U+04BE">>, <<"U+04C1">>,
      <<"U+04C3">>, <<"U+04C5">>, <<"U+04C7">>, <<"U+04C9">>, <<"U+04CB">>, <<"U+04CD">>,
      <<"U+04C0">>, <<"U+04D0">>, <<"U+04D2">>, <<"U+04D4">>, <<"U+04D6">>, <<"U+04D8">>,
      <<"U+04DA">>, <<"U+04DC">>, <<"U+04DE">>, <<"U+04E0">>, <<"U+04E2">>, <<"U+04E4">>,
      <<"U+04E6">>, <<"U+04E8">>, <<"U+04EA">>, <<"U+04EC">>, <<"U+04EE">>, <<"U+04F0">>,
      <<"U+04F2">>, <<"U+04F4">>, <<"U+04F6">>, <<"U+04F8">>, <<"U+04FA">>, <<"U+04FC">>,
      <<"U+04FE">>, <<"U+0500">>, <<"U+0502">>, <<"U+0504">>, <<"U+0506">>, <<"U+0508">>,
      <<"U+050A">>, <<"U+050C">>, <<"U+050E">>, <<"U+0510">>, <<"U+0512">>, <<"U+0514">>,
      <<"U+0516">>, <<"U+0518">>, <<"U+051A">>, <<"U+051C">>, <<"U+051E">>, <<"U+0520">>,
      <<"U+0522">>, <<"U+0524">>, <<"U+0526">>, <<"U+0528">>, <<"U+052A">>, <<"U+052C">>,
      <<"U+052E">>, <<"U+0531">>, <<"U+0532">>, <<"U+0533">>, <<"U+0534">>, <<"U+0535">>,
      <<"U+0536">>, <<"U+0537">>, <<"U+0538">>, <<"U+0539">>, <<"U+053A">>, <<"U+053B">>,
      <<"U+053C">>, <<"U+053D">>, <<"U+053E">>, <<"U+053F">>, <<"U+0540">>, <<"U+0541">>,
      <<"U+0542">>, <<"U+0543">>, <<"U+0544">>, <<"U+0545">>, <<"U+0546">>, <<"U+0547">>,
      <<"U+0548">>, <<"U+0549">>, <<"U+054A">>, <<"U+054B">>, <<"U+054C">>, <<"U+054D">>,
      <<"U+054E">>, <<"U+054F">>, <<"U+0550">>, <<"U+0551">>, <<"U+0552">>, <<"U+0553">>,
      <<"U+0554">>, <<"U+0555">>, <<"U+0556">>, <<"U+0535", "U+0552">>, <<"U+1C90">>,
      <<"U+1C91">>, <<"U+1C92">>, <<"U+1C93">>, <<"U+1C94">>, <<"U+1C95">>, <<"U+1C96">>,
      <<"U+1C97">>, <<"U+1C98">>, <<"U+1C99">>, <<"U+1C9A">>, <<"U+1C9B">>, <<"U+1C9C">>,
      <<"U+1C9D">>, <<"U+1C9E">>, <<"U+1C9F">>, <<"U+1CA0">>, <<"U+1CA1">>, <<"U+1CA2">>,
      <<"U+1CA3">>, <<"U+1CA4">>, <<"U+1CA5">>, <<"U+1CA6">>, <<"U+1CA7">>, <<"U+1CA8">>,
      <<"U+1CA9">>, <<"U+1CAA">>, <<"U+1CAB">>, <<"U+1CAC">>, <<"U+1CAD">>, <<"U+1CAE">>,
      <<"U+1CAF">>, <<"U+1CB0">>, <<"U+1CB1">>, <<"U+1CB2">>, <<"U+1CB3">>, <<"U+1CB4">>,
      <<"U+1CB5">>, <<"U+1CB6">>, <<"U+1CB7">>, <<"U+1CB8">>, <<"U+1CB9">>, <<"U+1CBA">>,
      <<"U+1CBD">>, <<"U+1CBE">>, <<"U+1CBF">>, <<"U+13F0">>, <<"U+13F1">>, <<"U+13F2">>,
      <<"U+13F3">>, <<"U+13F4">>, <<"U+13F5">>, <<"U+0412">>, <<"U+0414">>, <<"U+041E">>,
      <<"U+0421">>, <<"U+0422">>, <<"U+0422">>, <<"U+042A">>, <<"U+0462">>, <<"U+A64A">>,
      <<"U+A77D">>, <<"U+2C63">>, <<"U+A7C6">>, <<"U+1E00">>, <<"U+1E02">>, <<"U+1E04">>,
      <<"U+1E06">>, <<"U+1E08">>, <<"U+1E0A">>, <<"U+1E0C">>, <<"U+1E0E">>, <<"U+1E10">>,
      <<"U+1E12">>, <<"U+1E14">>, <<"U+1E16">>, <<"U+1E18">>, <<"U+1E1A">>, <<"U+1E1C">>,
      <<"U+1E1E">>, <<"U+1E20">>, <<"U+1E22">>, <<"U+1E24">>, <<"U+1E26">>, <<"U+1E28">>,
      <<"U+1E2A">>, <<"U+1E2C">>, <<"U+1E2E">>, <<"U+1E30">>, <<"U+1E32">>, <<"U+1E34">>,
      <<"U+1E36">>, <<"U+1E38">>, <<"U+1E3A">>, <<"U+1E3C">>, <<"U+1E3E">>, <<"U+1E40">>,
      <<"U+1E42">>, <<"U+1E44">>, <<"U+1E46">>, <<"U+1E48">>, <<"U+1E4A">>, <<"U+1E4C">>,
      <<"U+1E4E">>, <<"U+1E50">>, <<"U+1E52">>, <<"U+1E54">>, <<"U+1E56">>, <<"U+1E58">>,
      <<"U+1E5A">>, <<"U+1E5C">>, <<"U+1E5E">>, <<"U+1E60">>, <<"U+1E62">>, <<"U+1E64">>,
      <<"U+1E66">>, <<"U+1E68">>, <<"U+1E6A">>, <<"U+1E6C">>, <<"U+1E6E">>, <<"U+1E70">>,
      <<"U+1E72">>, <<"U+1E74">>, <<"U+1E76">>, <<"U+1E78">>, <<"U+1E7A">>, <<"U+1E7C">>,
      <<"U+1E7E">>, <<"U+1E80">>, <<"U+1E82">>, <<"U+1E84">>, <<"U+1E86">>, <<"U+1E88">>,
      <<"U+1E8A">>, <<"U+1E8C">>, <<"U+1E8E">>, <<"U+1E90">>, <<"U+1E92">>, <<"U+1E94">>,
      <<"H", "U+0331">>, <<"T", "U+0308">>, <<"W", "U+030A">>, <<"Y", "U+030A">>,
      <<"A", "U+02BE">>, <<"U+1E60">>, <<"U+1EA0">>, <<"U+1EA2">>, <<"U+1EA4">>,
      <<"U+1EA6">>, <<"U+1EA8">>, <<"U+1EAA">>, <<"U+1EAC">>, <<"U+1EAE">>, <<"U+1EB0">>,
      <<"U+1EB2">>, <<"U+1EB4">>, <<"U+1EB6">>, <<"U+1EB8">>, <<"U+1EBA">>, <<"U+1EBC">>,
      <<"U+1EBE">>, <<"U+1EC0">>, <<"U+1EC2">>, <<"U+1EC4">>, <<"U+1EC6">>, <<"U+1EC8">>,
      <<"U+1ECA">>, <<"U+1ECC">>, <<"U+1ECE">>, <<"U+1ED0">>, <<"U+1ED2">>, <<"U+1ED4">>,
      <<"U+1ED6">>, <<"U+1ED8">>, <<"U+1EDA">>, <<"U+1EDC">>, <<"U+1EDE">>, <<"U+1EE0">>,
      <<"U+1EE2">>, <<"U+1EE4">>, <<"U+1EE6">>, <<"U+1EE8">>, <<"U+1EEA">>, <<"U+1EEC">>,
      <<"U+1EEE">>, <<"U+1EF0">>, <<"U+1EF2">>, <<"U+1EF4">>, <<"U+1EF6">>, <<"U+1EF8">>,
      <<"U+1EFA">>, <<"U+1EFC">>, <<"U+1EFE">>, <<"U+1F08">>, <<"U+1F09">>, <<"U+1F0A">>,
      <<"U+1F0B">>, <<"U+1F0C">>, <<"U+1F0D">>, <<"U+1F0E">>, <<"U+1F0F">>, <<"U+1F18">>,
      <<"U+1F19">>, <<"U+1F1A">>, <<"U+1F1B">>, <<"U+1F1C">>, <<"U+1F1D">>, <<"U+1F28">>,
      <<"U+1F29">>, <<"U+1F2A">>, <<"U+1F2B">>, <<"U+1F2C">>, <<"U+1F2D">>, <<"U+1F2E">>,
      <<"U+1F2F">>, <<"U+1F38">>, <<"U+1F39">>, <<"U+1F3A">>, <<"U+1F3B">>, <<"U+1F3C">>,
      <<"U+1F3D">>, <<"U+1F3E">>, <<"U+1F3F">>, <<"U+1F48">>, <<"U+1F49">>, <<"U+1F4A">>,
      <<"U+1F4B">>, <<"U+1F4C">>, <<"U+1F4D">>, <<"U+03A5", "U+0313">>, <<"U+1F59">>,
      <<"U+03A5", "U+0313", "U+0300">>, <<"U+1F5B">>, <<"U+03A5", "U+0313", "U+0301">>,
      <<"U+1F5D">>, <<"U+03A5", "U+0313", "U+0342">>, <<"U+1F5F">>, <<"U+1F68">>,
      <<"U+1F69">>, <<"U+1F6A">>, <<"U+1F6B">>, <<"U+1F6C">>, <<"U+1F6D">>, <<"U+1F6E">>,
      <<"U+1F6F">>, <<"U+1FBA">>, <<"U+1FBB">>, <<"U+1FC8">>, <<"U+1FC9">>, <<"U+1FCA">>,
      <<"U+1FCB">>, <<"U+1FDA">>, <<"U+1FDB">>, <<"U+1FF8">>, <<"U+1FF9">>, <<"U+1FEA">>,
      <<"U+1FEB">>, <<"U+1FFA">>, <<"U+1FFB">>, <<"U+1F08", "U+0399">>,
      <<"U+1F09", "U+0399">>, <<"U+1F0A", "U+0399">>, <<"U+1F0B", "U+0399">>,
      <<"U+1F0C", "U+0399">>, <<"U+1F0D", "U+0399">>, <<"U+1F0E", "U+0399">>,
      <<"U+1F0F", "U+0399">>, <<"U+1F08", "U+0399">>, <<"U+1F09", "U+0399">>,
      <<"U+1F0A", "U+0399">>, <<"U+1F0B", "U+0399">>, <<"U+1F0C", "U+0399">>,
      <<"U+1F0D", "U+0399">>, <<"U+1F0E", "U+0399">>, <<"U+1F0F", "U+0399">>,
      <<"U+1F28", "U+0399">>, <<"U+1F29", "U+0399">>, <<"U+1F2A", "U+0399">>,
      <<"U+1F2B", "U+0399">>, <<"U+1F2C", "U+0399">>, <<"U+1F2D", "U+0399">>,
      <<"U+1F2E", "U+0399">>, <<"U+1F2F", "U+0399">>, <<"U+1F28", "U+0399">>,
      <<"U+1F29", "U+0399">>, <<"U+1F2A", "U+0399">>, <<"U+1F2B", "U+0399">>,
      <<"U+1F2C", "U+0399">>, <<"U+1F2D", "U+0399">>, <<"U+1F2E", "U+0399">>,
      <<"U+1F2F", "U+0399">>, <<"U+1F68", "U+0399">>, <<"U+1F69", "U+0399">>,
      <<"U+1F6A", "U+0399">>, <<"U+1F6B", "U+0399">>, <<"U+1F6C", "U+0399">>,
      <<"U+1F6D", "U+0399">>, <<"U+1F6E", "U+0399">>, <<"U+1F6F", "U+0399">>,
      <<"U+1F68", "U+0399">>, <<"U+1F69", "U+0399">>, <<"U+1F6A", "U+0399">>,
      <<"U+1F6B", "U+0399">>, <<"U+1F6C", "U+0399">>, <<"U+1F6D", "U+0399">>,
      <<"U+1F6E", "U+0399">>, <<"U+1F6F", "U+0399">>, <<"U+1FB8">>, <<"U+1FB9">>,
      <<"U+1FBA", "U+0399">>, <<"U+0391", "U+0399">>, <<"U+0386", "U+0399">>,
      <<"U+0391", "U+0342">>, <<"U+0391", "U+0342", "U+0399">>, <<"U+0391", "U+0399">>,
      <<"U+0399">>, <<"U+1FCA", "U+0399">>, <<"U+0397", "U+0399">>, <<"U+0389", "U+0399">>,
      <<"U+0397", "U+0342">>, <<"U+0397", "U+0342", "U+0399">>, <<"U+0397", "U+0399">>,
      <<"U+1FD8">>, <<"U+1FD9">>, <<"U+0399", "U+0308", "U+0300">>,
      <<"U+0399", "U+0308", "U+0301">>, <<"U+0399", "U+0342">>,
      <<"U+0399", "U+0308", "U+0342">>, <<"U+1FE8">>, <<"U+1FE9">>,
      <<"U+03A5", "U+0308", "U+0300">>, <<"U+03A5", "U+0308", "U+0301">>,
      <<"U+03A1", "U+0313">>, <<"U+1FEC">>, <<"U+03A5", "U+0342">>,
      <<"U+03A5", "U+0308", "U+0342">>, <<"U+1FFA", "U+0399">>, <<"U+03A9", "U+0399">>,
      <<"U+038F", "U+0399">>, <<"U+03A9", "U+0342">>, <<"U+03A9", "U+0342", "U+0399">>,
      <<"U+03A9", "U+0399">>, <<"U+2132">>, <<"U+2160">>, <<"U+2161">>, <<"U+2162">>,
      <<"U+2163">>, <<"U+2164">>, <<"U+2165">>, <<"U+2166">>, <<"U+2167">>, <<"U+2168">>,
      <<"U+2169">>, <<"U+216A">>, <<"U+216B">>, <<"U+216C">>, <<"U+216D">>, <<"U+216E">>,
      <<"U+216F">>, <<"U+2183">>, <<"U+24B6">>, <<"U+24B7">>, <<"U+24B8">>, <<"U+24B9">>,
      <<"U+24BA">>, <<"U+24BB">>, <<"U+24BC">>, <<"U+24BD">>, <<"U+24BE">>, <<"U+24BF">>,
      <<"U+24C0">>, <<"U+24C1">>, <<"U+24C2">>, <<"U+24C3">>, <<"U+24C4">>, <<"U+24C5">>,
      <<"U+24C6">>, <<"U+24C7">>, <<"U+24C8">>, <<"U+24C9">>, <<"U+24CA">>, <<"U+24CB">>,
      <<"U+24CC">>, <<"U+24CD">>, <<"U+24CE">>, <<"U+24CF">>, <<"U+2C00">>, <<"U+2C01">>,
      <<"U+2C02">>, <<"U+2C03">>, <<"U+2C04">>, <<"U+2C05">>, <<"U+2C06">>, <<"U+2C07">>,
      <<"U+2C08">>, <<"U+2C09">>, <<"U+2C0A">>, <<"U+2C0B">>, <<"U+2C0C">>, <<"U+2C0D">>,
      <<"U+2C0E">>, <<"U+2C0F">>, <<"U+2C10">>, <<"U+2C11">>, <<"U+2C12">>, <<"U+2C13">>,
      <<"U+2C14">>, <<"U+2C15">>, <<"U+2C16">>, <<"U+2C17">>, <<"U+2C18">>, <<"U+2C19">>,
      <<"U+2C1A">>, <<"U+2C1B">>, <<"U+2C1C">>, <<"U+2C1D">>, <<"U+2C1E">>, <<"U+2C1F">>,
      <<"U+2C20">>, <<"U+2C21">>, <<"U+2C22">>, <<"U+2C23">>, <<"U+2C24">>, <<"U+2C25">>,
      <<"U+2C26">>, <<"U+2C27">>, <<"U+2C28">>, <<"U+2C29">>, <<"U+2C2A">>, <<"U+2C2B">>,
      <<"U+2C2C">>, <<"U+2C2D">>, <<"U+2C2E">>, <<"U+2C2F">>, <<"U+2C60">>, <<"U+023A">>,
      <<"U+023E">>, <<"U+2C67">>, <<"U+2C69">>, <<"U+2C6B">>, <<"U+2C72">>, <<"U+2C75">>,
      <<"U+2C80">>, <<"U+2C82">>, <<"U+2C84">>, <<"U+2C86">>, <<"U+2C88">>, <<"U+2C8A">>,
      <<"U+2C8C">>, <<"U+2C8E">>, <<"U+2C90">>, <<"U+2C92">>, <<"U+2C94">>, <<"U+2C96">>,
      <<"U+2C98">>, <<"U+2C9A">>, <<"U+2C9C">>, <<"U+2C9E">>, <<"U+2CA0">>, <<"U+2CA2">>,
      <<"U+2CA4">>, <<"U+2CA6">>, <<"U+2CA8">>, <<"U+2CAA">>, <<"U+2CAC">>, <<"U+2CAE">>,
      <<"U+2CB0">>, <<"U+2CB2">>, <<"U+2CB4">>, <<"U+2CB6">>, <<"U+2CB8">>, <<"U+2CBA">>,
      <<"U+2CBC">>, <<"U+2CBE">>, <<"U+2CC0">>, <<"U+2CC2">>, <<"U+2CC4">>, <<"U+2CC6">>,
      <<"U+2CC8">>, <<"U+2CCA">>, <<"U+2CCC">>, <<"U+2CCE">>, <<"U+2CD0">>, <<"U+2CD2">>,
      <<"U+2CD4">>, <<"U+2CD6">>, <<"U+2CD8">>, <<"U+2CDA">>, <<"U+2CDC">>, <<"U+2CDE">>,
      <<"U+2CE0">>, <<"U+2CE2">>, <<"U+2CEB">>, <<"U+2CED">>, <<"U+2CF2">>, <<"U+10A0">>,
      <<"U+10A1">>, <<"U+10A2">>, <<"U+10A3">>, <<"U+10A4">>, <<"U+10A5">>, <<"U+10A6">>,
      <<"U+10A7">>, <<"U+10A8">>, <<"U+10A9">>, <<"U+10AA">>, <<"U+10AB">>, <<"U+10AC">>,
      <<"U+10AD">>, <<"U+10AE">>, <<"U+10AF">>, <<"U+10B0">>, <<"U+10B1">>, <<"U+10B2">>,
      <<"U+10B3">>, <<"U+10B4">>, <<"U+10B5">>, <<"U+10B6">>, <<"U+10B7">>, <<"U+10B8">>,
      <<"U+10B9">>, <<"U+10BA">>, <<"U+10BB">>, <<"U+10BC">>, <<"U+10BD">>, <<"U+10BE">>,
      <<"U+10BF">>, <<"U+10C0">>, <<"U+10C1">>, <<"U+10C2">>, <<"U+10C3">>, <<"U+10C4">>,
      <<"U+10C5">>, <<"U+10C7">>, <<"U+10CD">>, <<"U+A640">>, <<"U+A642">>, <<"U+A644">>,
      <<"U+A646">>, <<"U+A648">>, <<"U+A64A">>, <<"U+A64C">>, <<"U+A64E">>, <<"U+A650">>,
      <<"U+A652">>, <<"U+A654">>, <<"U+A656">>, <<"U+A658">>, <<"U+A65A">>, <<"U+A65C">>,
      <<"U+A65E">>, <<"U+A660">>, <<"U+A662">>, <<"U+A664">>, <<"U+A666">>, <<"U+A668">>,
      <<"U+A66A">>, <<"U+A66C">>, <<"U+A680">>, <<"U+A682">>, <<"U+A684">>, <<"U+A686">>,
      <<"U+A688">>, <<"U+A68A">>, <<"U+A68C">>, <<"U+A68E">>, <<"U+A690">>, <<"U+A692">>,
      <<"U+A694">>, <<"U+A696">>, <<"U+A698">>, <<"U+A69A">>, <<"U+A722">>, <<"U+A724">>,
      <<"U+A726">>, <<"U+A728">>, <<"U+A72A">>, <<"U+A72C">>, <<"U+A72E">>, <<"U+A732">>,
      <<"U+A734">>, <<"U+A736">>, <<"U+A738">>, <<"U+A73A">>, <<"U+A73C">>, <<"U+A73E">>,
      <<"U+A740">>, <<"U+A742">>, <<"U+A744">>, <<"U+A746">>, <<"U+A748">>, <<"U+A74A">>,
      <<"U+A74C">>, <<"U+A74E">>, <<"U+A750">>, <<"U+A752">>, <<"U+A754">>, <<"U+A756">>,
      <<"U+A758">>, <<"U+A75A">>, <<"U+A75C">>, <<"U+A75E">>, <<"U+A760">>, <<"U+A762">>,
      <<"U+A764">>, <<"U+A766">>, <<"U+A768">>, <<"U+A76A">>, <<"U+A76C">>, <<"U+A76E">>,
      <<"U+A779">>, <<"U+A77B">>, <<"U+A77E">>, <<"U+A780">>, <<"U+A782">>, <<"U+A784">>,
      <<"U+A786">>, <<"U+A78B">>, <<"U+A790">>, <<"U+A792">>, <<"U+A7C4">>, <<"U+A796">>,
      <<"U+A798">>, <<"U+A79A">>, <<"U+A79C">>, <<"U+A79E">>, <<"U+A7A0">>, <<"U+A7A2">>,
      <<"U+A7A4">>, <<"U+A7A6">>, <<"U+A7A8">>, <<"U+A7B4">>, <<"U+A7B6">>, <<"U+A7B8">>,
      <<"U+A7BA">>, <<"U+A7BC">>, <<"U+A7BE">>, <<"U+A7C0">>, <<"U+A7C2">>, <<"U+A7C7">>,
      <<"U+A7C9">>, <<"U+A7D0">>, <<"U+A7D6">>, <<"U+A7D8">>, <<"U+A7F5">>, <<"U+A7B3">>,
      <<"U+13A0">>, <<"U+13A1">>, <<"U+13A2">>, <<"U+13A3">>, <<"U+13A4">>, <<"U+13A5">>,
      <<"U+13A6">>, <<"U+13A7">>, <<"U+13A8">>, <<"U+13A9">>, <<"U+13AA">>, <<"U+13AB">>,
      <<"U+13AC">>, <<"U+13AD">>, <<"U+13AE">>, <<"U+13AF">>, <<"U+13B0">>, <<"U+13B1">>,
      <<"U+13B2">>, <<"U+13B3">>, <<"U+13B4">>, <<"U+13B5">>, <<"U+13B6">>, <<"U+13B7">>,
      <<"U+13B8">>, <<"U+13B9">>, <<"U+13BA">>, <<"U+13BB">>, <<"U+13BC">>, <<"U+13BD">>,
      <<"U+13BE">>, <<"U+13BF">>, <<"U+13C0">>, <<"U+13C1">>, <<"U+13C2">>, <<"U+13C3">>,
      <<"U+13C4">>, <<"U+13C5">>, <<"U+13C6">>, <<"U+13C7">>, <<"U+13C8">>, <<"U+13C9">>,
      <<"U+13CA">>, <<"U+13CB">>, <<"U+13CC">>, <<"U+13CD">>, <<"U+13CE">>, <<"U+13CF">>,
      <<"U+13D0">>, <<"U+13D1">>, <<"U+13D2">>, <<"U+13D3">>, <<"U+13D4">>, <<"U+13D5">>,
      <<"U+13D6">>, <<"U+13D7">>, <<"U+13D8">>, <<"U+13D9">>, <<"U+13DA">>, <<"U+13DB">>,
      <<"U+13DC">>, <<"U+13DD">>, <<"U+13DE">>, <<"U+13DF">>, <<"U+13E0">>, <<"U+13E1">>,
      <<"U+13E2">>, <<"U+13E3">>, <<"U+13E4">>, <<"U+13E5">>, <<"U+13E6">>, <<"U+13E7">>,
      <<"U+13E8">>, <<"U+13E9">>, <<"U+13EA">>, <<"U+13EB">>, <<"U+13EC">>, <<"U+13ED">>,
      <<"U+13EE">>, <<"U+13EF">>, <<"F", "F">>, <<"F", "I">>, <<"F", "L">>,
      <<"F", "F", "I">>, <<"F", "F", "L">>, <<"S", "T">>, <<"S", "T">>,
      <<"U+0544", "U+0546">>, <<"U+0544", "U+0535">>, <<"U+0544", "U+053B">>,
      <<"U+054E", "U+0546">>, <<"U+0544", "U+053D">>, <<"U+FF21">>, <<"U+FF22">>,
      <<"U+FF23">>, <<"U+FF24">>, <<"U+FF25">>, <<"U+FF26">>, <<"U+FF27">>, <<"U+FF28">>,
      <<"U+FF29">>, <<"U+FF2A">>, <<"U+FF2B">>, <<"U+FF2C">>, <<"U+FF2D">>, <<"U+FF2E">>,
      <<"U+FF2F">>, <<"U+FF30">>, <<"U+FF31">>, <<"U+FF32">>, <<"U+FF33">>, <<"U+FF34">>,
      <<"U+FF35">>, <<"U+FF36">>, <<"U+FF37">>, <<"U+FF38">>, <<"U+FF39">>, <<"U+FF3A">>,
      <<"U+10400">>, <<"U+10401">>, <<"U+10402">>, <<"U+10403">>, <<"U+10404">>,
      <<"U+10405">>, <<"U+10406">>, <<"U+10407">>, <<"U+10408">>, <<"U+10409">>,
      <<"U+1040A">>, <<"U+1040B">>, <<"U+1040C">>, <<"U+1040D">>, <<"U+1040E">>,
      <<"U+1040F">>, <<"U+10410">>, <<"U+10411">>, <<"U+10412">>, <<"U+10413">>,
      <<"U+10414">>, <<"U+10415">>, <<"U+10416">>, <<"U+10417">>, <<"U+10418">>,
      <<"U+10419">>, <<"U+1041A">>, <<"U+1041B">>, <<"U+1041C">>, <<"U+1041D">>,
      <<"U+1041E">>, <<"U+1041F">>, <<"U+10420">>, <<"U+10421">>, <<"U+10422">>,
      <<"U+10423">>, <<"U+10424">>, <<"U+10425">>, <<"U+10426">>, <<"U+10427">>,
      <<"U+104B0">>, <<"U+104B1">>, <<"U+104B2">>, <<"U+104B3">>, <<"U+104B4">>,
      <<"U+104B5">>, <<"U+104B6">>, <<"U+104B7">>, <<"U+104B8">>, <<"U+104B9">>,
      <<"U+104BA">>, <<"U+104BB">>, <<"U+104BC">>, <<"U+104BD">>, <<"U+104BE">>,
      <<"U+104BF">>, <<"U+104C0">>, <<"U+104C1">>, <<"U+104C2">>, <<"U+104C3">>,
      <<"U+104C4">>, <<"U+104C5">>, <<"U+104C6">>, <<"U+104C7">>, <<"U+104C8">>,
      <<"U+104C9">>, <<"U+104CA">>, <<"U+104CB">>, <<"U+104CC">>, <<"U+104CD">>,
      <<"U+104CE">>, <<"U+104CF">>, <<"U+104D0">>, <<"U+104D1">>, <<"U+104D2">>,
      <<"U+104D3">>, <<"U+10570">>, <<"U+10571">>, <<"U+10572">>, <<"U+10573">>,
      <<"U+10574">>, <<"U+10575">>, <<"U+10576">>, <<"U+10577">>, <<"U+10578">>,
      <<"U+10579">>, <<"U+1057A">>, <<"U+1057C">>, <<"U+1057D">>, <<"U+1057E">>,
      <<"U+1057F">>, <<"U+10580">>, <<"U+10581">>, <<"U+10582">>, <<"U+10583">>,
      <<"U+10584">>, <<"U+10585">>, <<"U+10586">>, <<"U+10587">>, <<"U+10588">>,
      <<"U+10589">>, <<"U+1058A">>, <<"U+1058C">>, <<"U+1058D">>, <<"U+1058E">>,
      <<"U+1058F">>, <<"U+10590">>, <<"U+10591">>, <<"U+10592">>, <<"U+10594">>,
      <<"U+10595">>, <<"U+10C80">>, <<"U+10C81">>, <<"U+10C82">>, <<"U+10C83">>,
      <<"U+10C84">>, <<"U+10C85">>, <<"U+10C86">>, <<"U+10C87">>, <<"U+10C88">>,
      <<"U+10C89">>, <<"U+10C8A">>, <<"U+10C8B">>, <<"U+10C8C">>, <<"U+10C8D">>,
      <<"U+10C8E">>, <<"U+10C8F">>, <<"U+10C90">>, <<"U+10C91">>, <<"U+10C92">>,
      <<"U+10C93">>, <<"U+10C94">>, <<"U+10C95">>, <<"U+10C96">>, <<"U+10C97">>,
      <<"U+10C98">>, <<"U+10C99">>, <<"U+10C9A">>, <<"U+10C9B">>, <<"U+10C9C">>,
      <<"U+10C9D">>, <<"U+10C9E">>, <<"U+10C9F">>, <<"U+10CA0">>, <<"U+10CA1">>,
      <<"U+10CA2">>, <<"U+10CA3">>, <<"U+10CA4">>, <<"U+10CA5">>, <<"U+10CA6">>,
      <<"U+10CA7">>, <<"U+10CA8">>, <<"U+10CA9">>, <<"U+10CAA">>, <<"U+10CAB">>,
      <<"U+10CAC">>, <<"U+10CAD">>, <<"U+10CAE">>, <<"U+10CAF">>, <<"U+10CB0">>,
      <<"U+10CB1">>, <<"U+10CB2">>, <<"U+118A0">>, <<"U+118A1">>, <<"U+118A2">>,
      <<"U+118A3">>, <<"U+118A4">>, <<"U+118A5">>, <<"U+118A6">>, <<"U+118A7">>,
      <<"U+118A8">>, <<"U+118A9">>, <<"U+118AA">>, <<"U+118AB">>, <<"U+118AC">>,
      <<"U+118AD">>, <<"U+118AE">>, <<"U+118AF">>, <<"U+118B0">>, <<"U+118B1">>,
      <<"U+118B2">>, <<"U+118B3">>, <<"U+118B4">>, <<"U+118B5">>, <<"U+118B6">>,
      <<"U+118B7">>, <<"U+118B8">>, <<"U+118B9">>, <<"U+118BA">>, <<"U+118BB">>,
      <<"U+118BC">>, <<"U+118BD">>, <<"U+118BE">>, <<"U+118BF">>, <<"U+16E40">>,
      <<"U+16E41">>, <<"U+16E42">>, <<"U+16E43">>, <<"U+16E44">>, <<"U+16E45">>,
      <<"U+16E46">>, <<"U+16E47">>, <<"U+16E48">>, <<"U+16E49">>, <<"U+16E4A">>,
      <<"U+16E4B">>, <<"U+16E4C">>, <<"U+16E4D">>, <<"U+16E4E">>, <<"U+16E4F">>,
      <<"U+16E50">>, <<"U+16E51">>, <<"U+16E52">>, <<"U+16E53">>, <<"U+16E54">>,
      <<"U+16E55">>, <<"U+16E56">>, <<"U+16E57">>, <<"U+16E58">>, <<"U+16E59">>,
      <<"U+16E5A">>, <<"U+16E5B">>, <<"U+16E5C">>, <<"U+16E5D">>, <<"U+16E5E">>,
      <<"U+16E5F">>, <<"U+1E900">>, <<"U+1E901">>, <<"U+1E902">>, <<"U+1E903">>,
      <<"U+1E904">>, <<"U+1E905">>, <<"U+1E906">>, <<"U+1E907">>, <<"U+1E908">>,
      <<"U+1E909">>, <<"U+1E90A">>, <<"U+1E90B">>, <<"U+1E90C">>, <<"U+1E90D">>,
      <<"U+1E90E">>, <<"U+1E90F">>, <<"U+1E910">>, <<"U+1E911">>, <<"U+1E912">>,
      <<"U+1E913">>, <<"U+1E914">>, <<"U+1E915">>, <<"U+1E916">>, <<"U+1E917">>,
      <<"U+1E918">>, <<"U+1E919">>, <<"U+1E91A">>, <<"U+1E91B">>, <<"U+1E91C">>,
      <<"U+1E91D">>, <<"U+1E91E">>, <<"U+1E91F">>, <<"U+1E920">>, <<"U+1E921">>
    >>

LowerToUpper ==
    [c \in {LowerCase[k] : k \in 1..Len(LowerCase)} |->
        UpperCase[CHOOSE k \in 1..Len(LowerCase) : LowerCase[k] = c]]

UpperChar(c) == IF c \in DOMAIN LowerToUpper THEN LowerToUpper[c] ELSE <<c>>

RECURSIVE StrUpper(_)
\* str.upper()
StrUpper(s) == IF s = <<>> THEN <<>> ELSE UpperChar(Head(s)) \o StrUpper(Tail(s))

\* str.startswith(p)
StartsWith(s, p) == Len(s) >= Len(p) /\ SubSeq(s, 1, Len(p)) = p

\* str.contains(p), p a literal
Contains(s, p) == \E k \in 1..(Len(s) - Len(p) + 1) : SubSeq(s, k, k + Len(p) - 1) = p

\* str.strip(): the characters it takes off the two ends of a text (str.isspace)
Whitespace ==
    {
      "U+0009", "U+000A", "U+000B", "U+000C", "U+000D", "U+001C", "U+001D", "U+001E",
      "U+001F", " ", "U+0085", "U+00A0", "U+1680", "U+2000", "U+2001", "U+2002",
      "U+2003", "U+2004", "U+2005", "U+2006", "U+2007", "U+2008", "U+2009", "U+200A",
      "U+2028", "U+2029", "U+202F", "U+205F", "U+3000"
    }

RECURSIVE LStrip(_)
LStrip(s) == IF s # <<>> /\ Head(s) \in Whitespace THEN LStrip(Tail(s)) ELSE s

RECURSIVE RStrip(_)
RStrip(s) == IF s # <<>> /\ s[Len(s)] \in Whitespace THEN RStrip(SubSeq(s, 1, Len(s) - 1)) ELSE s

\* str.strip()
Strip(s) == RStrip(LStrip(s))

\* the characters of the texts that the model orders (source ids), in code-point
\* order from U+0020 on; the quotation mark, the backslash and the grave accent by
\* their code points
Ascii ==
    <<
      " ", "!", "U+0022", "#", "$", "%", "&", "'", "(", ")", "*", "+", ",", "-", ".", "/",
      "0", "1", "2", "3", "4", "5", "6", "7", "8", "9", ":", ";", "<", "=", ">", "?",
      "@", "A", "B", "C", "D", "E", "F", "G", "H", "I", "J", "K", "L", "M", "N", "O",
      "P", "Q", "R", "S", "T", "U", "V", "W", "X", "Y", "Z", "[", "U+005C", "]", "^", "_",
      "U+0060", "a", "b", "c", "d", "e", "f", "g", "h", "i", "j", "k", "l", "m", "n", "o",
      "p", "q", "r", "s", "t", "u", "v", "w", "x", "y", "z", "{", "|", "}", "~"
    >>

\* ord(c) for the characters of Ascii
CodePoint ==
    [c \in {Ascii[k] : k \in 1..Len(Ascii)} |-> 31 + (CHOOSE k \in 1..Len(Ascii) : Ascii[k] = c)]

\* s < t for two texts (str comparison: by code point, a proper prefix first)
TextLess(s, t) ==
    \E k \in 1..Len(t) :
       /\ \A j \in 1..(k - 1) : j <= Len(s) /\ s[j] = t[j]
       /\ (k > Len(s) \/ CodePoint[s[k]] < CodePoint[t[k]])

DigitChar == <<"0", "1", "2", "3", "4", "5", "6", "7", "8", "9">>

\* the value of an ASCII digit
DigitValue == [c \in {DigitChar[k] : k \in 1..10} |-> (CHOOSE k \in 1..10 : DigitChar[k] = c) - 1]

RECURSIVE Digits(_)
\* the decimal digits of n >= 0
Digits(n) == IF n < 10 THEN <<n>> ELSE Append(Digits(n \div 10), n % 10)

\* str(n) for n >= 0
IntText(n) == [k \in 1..Len(Digits(n)) |-> DigitChar[Digits(n)[k] + 1]]

\* the decimal digits (category Nd) other than 0-9, which \d of a str pattern
\* matches as well
OtherDigits ==
    {
      "U+0660", "U+0661", "U+0662", "U+0663", "U+0664", "U+0665", "U+0666", "U+0667",
      "U+0668", "U+0669", "U+06F0", "U+06F1", "U+06F2", "U+06F3", "U+06F4", "U+06F5",
      "U+06F6", "U+06F7", "U+06F8", "U+06F9", "U+07C0", "U+07C1", "U+07C2", "U+07C3",
      "U+07C4", "U+07C5", "U+07C6", "U+07C7", "U+07C8", "U+07C9", "U+0966", "U+0967",
      "U+0968", "U+0969", "U+096A", "U+096B", "U+096C", "U+096D", "U+096E", "U+096F",
      "U+09E6", "U+09E7", "U+09E8", "U+09E9", "U+09EA", "U+09EB", "U+09EC", "U+09ED",
      "U+09EE", "U+09EF", "U+0A66", "U+0A67", "U+0A68", "U+0A69", "U+0A6A", "U+0A6B",
      "U+0A6C", "U+0A6D", "U+0A6E", "U+0A6F", "U+0AE6", "U+0AE7", "U+0AE8", "U+0AE9",
      "U+0AEA", "U+0AEB", "U+0AEC", "U+0AED", "U+0AEE", "U+0AEF", "U+0B66", "U+0B67",
      "U+0B68", "U+0B69", "U+0B6A", "U+0B6B", "U+0B6C", "U+0B6D", "U+0B6E", "U+0B6F",
      "U+0BE6", "U+0BE7", "U+0BE8", "U+0BE9", "U+0BEA", "U+0BEB", "U+0BEC", "U+0BED",
      "U+0BEE", "U+0BEF", "U+0C66", "U+0C67", "U+0C68", "U+0C69", "U+0C6A", "U+0C6B",
      "U+0C6C", "U+0C6D", "U+0C6E", "U+0C6F", "U+0CE6", "U+0CE7", "U+0CE8", "U+0CE9",
      "U+0CEA", "U+0CEB", "U+0CEC", "U+0CED", "U+0CEE", "U+0CEF", "U+0D66", "U+0D67",
      "U+0D68", "U+0D69", "U+0D6A", "U+0D6B", "U+0D6C", "U+0D6D", "U+0D6E", "U+0D6F",
      "U+0DE6", "U+0DE7", "U+0DE8", "U+0DE9", "U+0DEA", "U+0DEB", "U+0DEC", "U+0DED",
      "U+0DEE", "U+0DEF", "U+0E50", "U+0E51", "U+0E52", "U+0E53", "U+0E54", "U+0E55",
      "U+0E56", "U+0E57", "U+0E58", "U+0E59", "U+0ED0", "U+0ED1", "U+0ED2", "U+0ED3",
      "U+0ED4", "U+0ED5", "U+0ED6", "U+0ED7", "U+0ED8", "U+0ED9", "U+0F20", "U+0F21",
      "U+0F22", "U+0F23", "U+0F24", "U+0F25", "U+0F26", "U+0F27", "U+0F28", "U+0F29",
      "U+1040", "U+1041", "U+1042", "U+1043", "U+1044", "U+1045", "U+1046", "U+1047",
      "U+1048", "U+1049", "U+1090", "U+1091", "U+1092", "U+1093", "U+1094", "U+1095",
      "U+1096", "U+1097", "U+1098", "U+1099", "U+17E0", "U+17E1", "U+17E2", "U+17E3",
      "U+17E4", "U+17E5", "U+17E6", "U+17E7", "U+17E8", "U+17E9", "U+1810", "U+1811",
      "U+1812", "U+1813", "U+1814", "U+1815", "U+1816", "U+1817", "U+1818", "U+1819",
      "U+1946", "U+1947", "U+1948", "U+1949", "U+194A", "U+194B", "U+194C", "U+194D",
      "U+194E", "U+194F", "U+19D0", "U+19D1", "U+19D2", "U+19D3", "U+19D4", "U+19D5",
      "U+19D6", "U+19D7", "U+19D8", "U+19D9", "U+1A80", "U+1A81", "U+1A82", "U+1A83",
      "U+1A84", "U+1A85", "U+1A86", "U+1A87", "U+1A88", "U+1A89", "U+1A90", "U+1A91",
      "U+1A92", "U+1A93", "U+1A94", "U+1A95", "U+1A96", "U+1A97", "U+1A98", "U+1A99",
      "U+1B50", "U+1B51", "U+1B52", "U+1B53", "U+1B54", "U+1B55", "U+1B56", "U+1B57",
      "U+1B58", "U+1B59", "U+1BB0", "U+1BB1", "U+1BB2", "U+1BB3", "U+1BB4", "U+1BB5",
      "U+1BB6", "U+1BB7", "U+1BB8", "U+1BB9", "U+1C40", "U+1C41", "U+1C42", "U+1C43",
      "U+1C44", "U+1C45", "U+1C46", "U+1C47", "U+1C48", "U+1C49", "U+1C50", "U+1C51",
      "U+1C52", "U+1C53", "U+1C54", "U+1C55", "U+1C56", "U+1C57", "U+1C58", "U+1C59",
      "U+A620", "U+A621", "U+A622", "U+A623", "U+A624", "U+A625", "U+A626", "U+A627",
      "U+A628", "U+A629", "U+A8D0", "U+A8D1", "U+A8D2", "U+A8D3", "U+A8D4", "U+A8D5",
      "U+A8D6", "U+A8D7", "U+A8D8", "U+A8D9", "U+A900", "U+A901", "U+A902", "U+A903",
      "U+A904", "U+A905", "U+A906", "U+A907", "U+A908", "U+A909", "U+A9D0", "U+A9D1",
      "U+A9D2", "U+A9D3", "U+A9D4", "U+A9D5", "U+A9D6", "U+A9D7", "U+A9D8", "U+A9D9",
      "U+A9F0", "U+A9F1", "U+A9F2", "U+A9F3", "U+A9F4", "U+A9F5", "U+A9F6", "U+A9F7",
      "U+A9F8", "U+A9F9", "U+AA50", "U+AA51", "U+AA52", "U+AA53", "U+AA54", "U+AA55",
      "U+AA56", "U+AA57", "U+AA58", "U+AA59", "U+ABF0", "U+ABF1", "U+ABF2", "U+ABF3",
      "U+ABF4", "U+ABF5", "U+ABF6", "U+ABF7", "U+ABF8", "U+ABF9", "U+FF10", "U+FF11",
      "U+FF12", "U+FF13", "U+FF14", "U+FF15", "U+FF16", "U+FF17", "U+FF18", "U+FF19",
      "U+104A0", "U+104A1", "U+104A2", "U+104A3", "U+104A4", "U+104A5", "U+104A6",
      "U+104A7", "U+104A8", "U+104A9", "U+10D30", "U+10D31", "U+10D32", "U+10D33",
      "U+10D34", "U+10D35", "U+10D36", "U+10D37", "U+10D38", "U+10D39", "U+11066",
      "U+11067", "U+11068", "U+11069", "U+1106A", "U+1106B", "U+1106C", "U+1106D",
      "U+1106E", "U+1106F", "U+110F0", "U+110F1", "U+110F2", "U+110F3", "U+110F4",
      "U+110F5", "U+110F6", "U+110F7", "U+110F8", "U+110F9", "U+11136", "U+11137",
      "U+11138", "U+11139", "U+1113A", "U+1113B", "U+1113C", "U+1113D", "U+1113E",
      "U+1113F", "U+111D0", "U+111D1", "U+111D2", "U+111D3", "U+111D4", "U+111D5",
      "U+111D6", "U+111D7", "U+111D8", "U+111D9", "U+112F0", "U+112F1", "U+112F2",
      "U+112F3", "U+112F4", "U+112F5", "U+112F6", "U+112F7", "U+112F8", "U+112F9",
      "U+11450", "U+11451", "U+11452", "U+11453", "U+11454", "U+11455", "U+11456",
      "U+11457", "U+11458", "U+11459", "U+114D0", "U+114D1", "U+114D2", "U+114D3",
      "U+114D4", "U+114D5", "U+114D6", "U+114D7", "U+114D8", "U+114D9", "U+11650",
      "U+11651", "U+11652", "U+11653", "U+11654", "U+11655", "U+11656", "U+11657",
      "U+11658", "U+11659", "U+116C0", "U+116C1", "U+116C2", "U+116C3", "U+116C4",
      "U+116C5", "U+116C6", "U+116C7", "U+116C8", "U+116C9", "U+11730", "U+11731",
      "U+11732", "U+11733", "U+11734", "U+11735", "U+11736", "U+11737", "U+11738",
      "U+11739", "U+118E0", "U+118E1", "U+118E2", "U+118E3", "U+118E4", "U+118E5",
      "U+118E6", "U+118E7", "U+118E8", "U+118E9", "U+11950", "U+11951", "U+11952",
      "U+11953", "U+11954", "U+11955", "U+11956", "U+11957", "U+11958", "U+11959",
      "U+11C50", "U+11C51", "U+11C52", "U+11C53", "U+11C54", "U+11C55", "U+11C56",
      "U+11C57", "U+11C58", "U+11C59", "U+11D50", "U+11D51", "U+11D52", "U+11D53",
      "U+11D54", "U+11D55", "U+11D56", "U+11D57", "U+11D58", "U+11D59", "U+11DA0",
      "U+11DA1", "U+11DA2", "U+11DA3", "U+11DA4", "U+11DA5", "U+11DA6", "U+11DA7",
      "U+11DA8", "U+11DA9", "U+16A60", "U+16A61", "U+16A62", "U+16A63", "U+16A64",
      "U+16A65", "U+16A66", "U+16A67", "U+16A68", "U+16A69", "U+16AC0", "U+16AC1",
      "U+16AC2", "U+16AC3", "U+16AC4", "U+16AC5", "U+16AC6", "U+16AC7", "U+16AC8",
      "U+16AC9", "U+16B50", "U+16B51", "U+16B52", "U+16B53", "U+16B54", "U+16B55",
      "U+16B56", "U+16B57", "U+16B58", "U+16B59", "U+1D7CE", "U+1D7CF", "U+1D7D0",
      "U+1D7D1", "U+1D7D2", "U+1D7D3", "U+1D7D4", "U+1D7D5", "U+1D7D6", "U+1D7D7",
      "U+1D7D8", "U+1D7D9", "U+1D7DA", "U+1D7DB", "U+1D7DC", "U+1D7DD", "U+1D7DE",
      "U+1D7DF", "U+1D7E0", "U+1D7E1", "U+1D7E2", "U+1D7E3", "U+1D7E4", "U+1D7E5",
      "U+1D7E6", "U+1D7E7", "U+1D7E8", "U+1D7E9", "U+1D7EA", "U+1D7EB", "U+1D7EC",
      "U+1D7ED", "U+1D7EE", "U+1D7EF", "U+1D7F0", "U+1D7F1", "U+1D7F2", "U+1D7F3",
      "U+1D7F4", "U+1D7F5", "U+1D7F6", "U+1D7F7", "U+1D7F8", "U+1D7F9", "U+1D7FA",
      "U+1D7FB", "U+1D7FC", "U+1D7FD", "U+1D7FE", "U+1D7FF", "U+1E140", "U+1E141",
      "U+1E142", "U+1E143", "U+1E144", "U+1E145", "U+1E146", "U+1E147", "U+1E148",
      "U+1E149", "U+1E2F0", "U+1E2F1", "U+1E2F2", "U+1E2F3", "U+1E2F4", "U+1E2F5",
      "U+1E2F6", "U+1E2F7", "U+1E2F8", "U+1E2F9", "U+1E950", "U+1E951", "U+1E952",
      "U+1E953", "U+1E954", "U+1E955", "U+1E956", "U+1E957", "U+1E958", "U+1E959",
      "U+1FBF0", "U+1FBF1", "U+1FBF2", "U+1FBF3", "U+1FBF4", "U+1FBF5", "U+1FBF6",
      "U+1FBF7", "U+1FBF8", "U+1FBF9"
    }

\* \d
IsDigit(c) == c \in DOMAIN DigitValue \/ c \in OtherDigits

RECURSIVE DigitRun(_, _)
\* \d+ at position k of s: the position of the last digit of the maximal run
DigitRun(s, k) == IF k < Len(s) /\ IsDigit(s[k + 1]) THEN DigitRun(s, k + 1) ELSE k

\* str.extract(r"(-?\d+)"): the first match in s as <<from, to>>, <<>> without one
ExtractMatch(s) ==
    LET starts == {k \in 1..Len(s) : IsDigit(s[k])}
    IN IF starts = {} THEN <<>>
       ELSE LET k == CHOOSE j \in starts : \A i \in starts : j <= i
            IN <<IF k > 1 /\ s[k - 1] = "-" THEN k - 1 ELSE k, DigitRun(s, k)>>

RECURSIVE DecimalValue(_, _)
\* the number written by the ASCII digits t, after the value acc of the digits before
DecimalValue(t, acc) ==
    IF t = <<>> THEN acc ELSE DecimalValue(Tail(t), 10 * acc + DigitValue[Head(t)])

\* pd.to_numeric(errors="coerce") of an extracted text as a set of at most one
\* number, the empty set being NaN: the parser reads the digits 0-9 only, a text
\* with another digit is not a number
ToNumeric(t) ==
    LET neg == t # <<>> /\ Head(t) = "-"
        digits == IF neg THEN Tail(t) ELSE t
    IN IF digits = <<>> \/ \E k \in 1..Len(digits) : digits[k] \notin DOMAIN DigitValue THEN {}
       ELSE IF neg THEN {0 - DecimalValue(digits, 0)} ELSE {DecimalValue(digits, 0)}

\* str.extract(r"(-?\d+)") then to_numeric: the first integer of the text as a set
\* of at most one number; the empty set is NaN
ExtractNum(s) ==
    LET m == ExtractMatch(s)
    IN IF m = <<>> THEN {} ELSE ToNumeric(SubSeq(s, m[1], m[2]))

(***************************************************************************)
(* config/constants.py                                                     *)
(***************************************************************************)
INVALID_LOC_PREFIXES == { <<"A", "A">> }
INVALID_LOC_EXACT ==
    { <<"T", "R", "A", "N", "S", "I", "T">>,
      <<"T", "R", "A", "N", "S", "I", "T", "_", "E", "R", "R", "O", "R">>,
      <<"M", "I", "S", "S", "I", "N", "G">>,
      <<"U", "T", "2">> }
ALLOC_BUFFER_STATUSES == {29, 30, 32}
REFILL_BUFFER_STATUSES == {29, 30}
\* NEAR_MISS_PCT = 0.15 as the fraction NEAR_MISS_PCT_NUM / NEAR_MISS_PCT_DEN
NEAR_MISS_PCT_NUM == 15
NEAR_MISS_PCT_DEN == 100

AUTOSTORE_MARK == <<"A", "U", "T", "O", "S", "T", "O", "R", "E">>

\* re.IGNORECASE: the characters that match a letter of AUTOSTORE_MARK; the long s
\* U+017F matches S, and no character matches two letters at once
IgnoreCase ==
    [c \in {"A", "U", "T", "O", "S", "R", "E"} |->
        CASE c = "A" -> {"A", "a"} [] c = "U" -> {"U", "u"} [] c = "T" -> {"T", "t"}
          [] c = "O" -> {"O", "o"} [] c = "S" -> {"S", "s", "U+017F"}
          [] c = "R" -> {"R", "r"} [] c = "E" -> {"E", "e"}]

\* pd.Timestamp("2262-04-11"), later than every received time of the model
far_future == 999999
\* pd.NaT: no received time
NaT == 0 - 1

(***************************************************************************)
(* allocate: normalisation, filters and FIFO queues (allocation.py 32-99)  *)
(***************************************************************************)
\* line 57: "SRC-" + index, the source id of a buffer row when the table has no id
\* column
SourceId(i) == <<"S", "R", "C", "-">> \o IntText(i - 1)

\* lines 24, 57: the buffer table has an id column (its rows have the field id)
HasIdCol(raw) == raw # <<>> /\ "id" \in DOMAIN raw[1]

\* lines 19, 37: the order table has a line-id column (its rows have the field radnr)
HasLineCol(raw) == raw # <<>> /\ "radnr" \in DOMAIN raw[1]

\* lines 33-37: the order rows with their derived columns; without order-id
\* column OrderID is "", without line-id column OrderRad is the row index
NormOrders(raw) ==
    [i \in 1..Len(raw) |->
        [Artikel |-> raw[i].artikel, Antal |-> raw[i].qty, OrderID |-> "",
         OrderRad |-> (IF HasLineCol(raw) THEN raw[i].radnr ELSE ToString(i - 1)),
         status |-> raw[i].status]]

\* variant: no order line is dropped
DropStatus35KeepsAll(rows, has_col) == rows

\* lines 40-49: drop the rows whose status numeral is 35
DropStatus35(rows, has_col) ==
    IF has_col
    THEN SelectSeqOf(rows, {i \in 1..Len(rows) : 35 \notin ExtractNum(Strip(rows[i].status))})
    ELSE rows

\* lines 52-57: the buffer rows with their derived columns; idx is the row's place
\* in the table
NormBuffer(raw) ==
    [i \in 1..Len(raw) |->
        [source_id |-> (IF HasIdCol(raw) THEN raw[i].id ELSE SourceId(i)), idx |-> i,
         artikel |-> raw[i].artikel, qty |-> raw[i].qty, loc |-> Strip(raw[i].loc),
         received |-> raw[i].received, status |-> raw[i].status]]

\* variant: a status text without a digit passes the filter
StatusAllowedNoDigitPasses(status, allowed) == ExtractNum(Strip(status)) \subseteq allowed

\* lines 60-68: status_series.isin(allowed_str) | status_num.isin(allowed)
StatusAllowed(status, allowed) ==
    LET status_series == Strip(status)
        allowed_str == {IntText(x) : x \in allowed}
    IN status_series \in allowed_str \/ ExtractNum(status_series) \cap allowed # {}

\* lines 73-74, of the stripped location
LocExcluded(loc) ==
    LET loc_upper == StrUpper(loc)
    IN \/ \E p \in INVALID_LOC_PREFIXES : StartsWith(loc_upper, p)
       \/ loc_upper \in INVALID_LOC_EXACT

\* line 84: str.contains("AUTOSTORE", case=False), a search that ignores case
IsAutostore(loc) ==
    \E k \in 1..(Len(loc) - Len(AUTOSTORE_MARK) + 1) :
        \A j \in 1..Len(AUTOSTORE_MARK) : loc[k + j - 1] \in IgnoreCase[AUTOSTORE_MARK[j]]

\* lines 60-85: the buffer rows allocation may use
EligibleBuffer(raw, has_col) ==
    LET b == NormBuffer(raw)
    IN SelectSeqOf(b, {i \in 1..Len(b) :
            /\ has_col => StatusAllowed(b[i].status, ALLOC_BUFFER_STATUSES)
            /\ ~LocExcluded(b[i].loc)
            /\ b[i].qty > 0})

\* line 88
ReceivedOrd(received) == IF received = NaT THEN far_future ELSE received

\* sort order of lines 90-91 within one article: received time, then the text of the
\* source id; rows equal in both keep the order of the table
UnitBefore(a, b) ==
    \/ ReceivedOrd(a.received) < ReceivedOrd(b.received)
    \/ /\ ReceivedOrd(a.received) = ReceivedOrd(b.received)
       /\ \/ TextLess(a.source_id, b.source_id)
          \/ a.source_id = b.source_id /\ a.idx < b.idx

RECURSIVE SortUnits(_)
SortUnits(s) ==
    IF s = <<>> THEN <<>>
    ELSE LET m == CHOOSE i \in 1..Len(s) : \A j \in 1..Len(s) : j = i \/ UnitBefore(s[i], s[j])
         IN <<s[m]>> \o SortUnits(SelectSeqOf(s, (1..Len(s)) \ {m}))

\* lines 93-99: a queue entry
QueueEntry(u) == [source_id |-> u.source_id, qty |-> u.qty, loc |-> u.loc, received |-> u.received]

\* lines 90-99: the FIFO queue of one article, pallets (autostore = FALSE) or bins
BuildQueue(elig, art, autostore) ==
    LET mine == SelectSeqOf(elig, {i \in 1..Len(elig) :
                    elig[i].artikel = art /\ IsAutostore(elig[i].loc) = autostore})
        sorted == SortUnits(mine)
    IN [k \in 1..Len(sorted) |-> QueueEntry(sorted[k])]

(***************************************************************************)
(* allocate: the stages of one order line (allocation.py 104-199)          *)
(***************************************************************************)
RECURSIVE Gcd(_, _)
Gcd(a, b) == IF b = 0 THEN a ELSE Gcd(b, a % b)

\* a non-negative fraction in lowest terms, <<numerator, denominator>>
Ratio(num, den) == LET g == Gcd(num, den) IN <<num \div g, den \div g>>

\* lines 141-146, 164-169, 181-186: clone_row(orow) with the quantity and the four
\* derived columns set
SubRow(orow, qty, zon, kalltyp, kalla, kallplats) ==
    [Artikel |-> orow.Artikel, Antal |-> qty, OrderID |-> orow.OrderID,
     OrderRad |-> orow.OrderRad, Zon |-> zon, Kalltyp |-> kalltyp, Kalla |-> kalla,
     Kallplats |-> kallplats]

\* variant: the 15 % boundary itself is not recorded (pct < 0.15)
record_near_miss_strict(orow, pal, need_now) ==
    IF need_now <= 0 THEN <<>>
    ELSE LET diff == pal.qty - need_now
         IN IF diff <= 0 THEN <<>>
            ELSE IF diff * NEAR_MISS_PCT_DEN < NEAR_MISS_PCT_NUM * need_now
                 THEN << [Artikel |-> orow.Artikel, OrderID |-> orow.OrderID,
                          OrderRad |-> orow.OrderRad, PallID |-> pal.source_id,
                          Kallplats |-> pal.loc, Mottagen |-> pal.received,
                          Behov |-> need_now, Pall_kvantitet |-> pal.qty,
                          Skillnad |-> diff, Procent |-> Ratio(100 * diff, need_now),
                          Galler |-> "NaN"] >>
                 ELSE <<>>

\* variant: the difference is taken relative to the pallet quantity, not the need
record_near_miss_of_pallet(orow, pal, need_now) ==
    IF need_now <= 0 THEN <<>>
    ELSE LET diff == pal.qty - need_now
         IN IF diff <= 0 THEN <<>>
            ELSE IF diff * NEAR_MISS_PCT_DEN <= NEAR_MISS_PCT_NUM * pal.qty
                 THEN << [Artikel |-> orow.Artikel, OrderID |-> orow.OrderID,
                          OrderRad |-> orow.OrderRad, PallID |-> pal.source_id,
                          Kallplats |-> pal.loc, Mottagen |-> pal.received,
                          Behov |-> need_now, Pall_kvantitet |-> pal.qty,
                          Skillnad |-> diff, Procent |-> Ratio(100 * diff, pal.qty),
                          Galler |-> "NaN"] >>
                 ELSE <<>>

\* lines 107-125: the records record_near_miss appends, none or one.  pct <= 0.15
\* is compared on the fraction; "Galler" is not set yet ("NaN")
record_near_miss(orow, pal, need_now) ==
    IF need_now <= 0 THEN <<>>
    ELSE LET diff == pal.qty - need_now
         IN IF diff <= 0 THEN <<>>
            ELSE IF diff * NEAR_MISS_PCT_DEN <= NEAR_MISS_PCT_NUM * need_now
                 THEN << [Artikel |-> orow.Artikel, OrderID |-> orow.OrderID,
                          OrderRad |-> orow.OrderRad, PallID |-> pal.source_id,
                          Kallplats |-> pal.loc, Mottagen |-> pal.received,
                          Behov |-> need_now, Pall_kvantitet |-> pal.qty,
                          Skillnad |-> diff, Procent |-> Ratio(100 * diff, need_now),
                          Galler |-> "NaN"] >>
                 ELSE <<>>

\* variant: only the head pallet of the queue is examined
HelpallScanHeadOnly(orow, tmp, need_now, acc) ==
    IF tmp = <<>> \/ need_now <= 0
    THEN [acc EXCEPT !.new_pq = @ \o tmp, !.need = need_now]
    ELSE LET pal == Head(tmp)
         IN IF pal.qty <= need_now
            THEN [acc EXCEPT !.rows = Append(@, SubRow(orow, pal.qty, "H", "HELPALL",
                                                      pal.source_id, pal.loc)),
                             !.new_pq = @ \o Tail(tmp),
                             !.need = need_now - pal.qty,
                             !.any_helpall = TRUE]
            ELSE [acc EXCEPT !.near = @ \o record_near_miss(orow, pal, need_now),
                             !.new_pq = @ \o tmp,
                             !.need = need_now]

RECURSIVE HelpallScanKeepsPallet(_, _, _, _)
\* variant: a pallet that was taken whole stays in the queue
HelpallScanKeepsPallet(orow, tmp, need_now, acc) ==
    IF tmp = <<>> \/ need_now <= 0
    THEN [acc EXCEPT !.new_pq = @ \o tmp, !.need = need_now]
    ELSE LET pal == Head(tmp)
         IN IF pal.qty <= need_now
            THEN HelpallScanKeepsPallet(orow, Tail(tmp), need_now - pal.qty,
                     [acc EXCEPT !.rows = Append(@, SubRow(orow, pal.qty, "H", "HELPALL",
                                                           pal.source_id, pal.loc)),
                                 !.new_pq = Append(@, pal),
                                 !.any_helpall = TRUE])
            ELSE HelpallScanKeepsPallet(orow, Tail(tmp), need_now,
                     [acc EXCEPT !.near = @ \o record_near_miss(orow, pal, need_now),
                                 !.new_pq = Append(@, pal)])

RECURSIVE HelpallScanStopsAtMisfit(_, _, _, _)
\* variant: the scan ends at the first pallet larger than the need (a break)
HelpallScanStopsAtMisfit(orow, tmp, need_now, acc) ==
    IF tmp = <<>> \/ need_now <= 0
    THEN [acc EXCEPT !.new_pq = @ \o tmp, !.need = need_now]
    ELSE LET pal == Head(tmp)
         IN IF pal.qty <= need_now
            THEN HelpallScanStopsAtMisfit(orow, Tail(tmp), need_now - pal.qty,
                     [acc EXCEPT !.rows = Append(@, SubRow(orow, pal.qty, "H", "HELPALL",
                                                           pal.source_id, pal.loc)),
                                 !.any_helpall = TRUE])
            ELSE [acc EXCEPT !.near = @ \o record_near_miss(orow, pal, need_now),
                             !.new_pq = @ \o tmp, !.need = need_now]

RECURSIVE HelpallScanSplits(_, _, _, _)
\* variant: a pallet larger than the need is split, the rest of it stays queued
HelpallScanSplits(orow, tmp, need_now, acc) ==
    IF tmp = <<>> \/ need_now <= 0
    THEN [acc EXCEPT !.new_pq = @ \o tmp, !.need = need_now]
    ELSE LET pal == Head(tmp)
             take == Min(pal.qty, need_now)
         IN HelpallScanSplits(orow, Tail(tmp), need_now - take,
                [acc EXCEPT !.rows = Append(@, SubRow(orow, take, "H", "HELPALL",
                                                      pal.source_id, pal.loc)),
                            !.new_pq = IF take < pal.qty
                                       THEN Append(@, [pal EXCEPT !.qty = pal.qty - take])
                                       ELSE @,
                            !.any_helpall = TRUE])

RECURSIVE HelpallScan(_, _, _, _)
\* lines 137-153: the while loop over tmp and the move of the rest to new_pq.
\* acc = [rows, near, new_pq, need, any_helpall]
HelpallScan(orow, tmp, need_now, acc) ==
    IF tmp = <<>> \/ need_now <= 0
    THEN [acc EXCEPT !.new_pq = @ \o tmp, !.need = need_now]
    ELSE LET pal == Head(tmp)
         IN IF pal.qty <= need_now
            THEN HelpallScan(orow, Tail(tmp), need_now - pal.qty,
                     [acc EXCEPT !.rows = Append(@, SubRow(orow, pal.qty, "H", "HELPALL",
                                                           pal.source_id, pal.loc)),
                                 !.any_helpall = TRUE])
            ELSE HelpallScan(orow, Tail(tmp), need_now,
                     [acc EXCEPT !.near = @ \o record_near_miss(orow, pal, need_now),
                                 !.new_pq = Append(@, pal)])

\* variant: the stage is passed over, no pallet is consumed
HelpallStageSkipped(orow, queue, need_now) ==
    [rows |-> <<>>, near |-> <<>>, new_pq |-> queue, need |-> need_now, any_helpall |-> FALSE]

\* lines 133-154: the HELPALL stage of one order line
HelpallStage(orow, queue, need_now) ==
    HelpallScan(orow, queue, need_now,
                [rows |-> <<>>, near |-> <<>>, new_pq |-> <<>>, need |-> need_now,
                 any_helpall |-> FALSE])

\* variant: an order line takes from the head bin only
AutostoreScanOneBin(orow, bq, need_now, acc) ==
    IF bq = <<>> \/ need_now <= 0
    THEN [acc EXCEPT !.new_bq = @ \o bq, !.need = need_now]
    ELSE LET binr == Head(bq)
             take == Min(binr.qty, need_now)
             left == binr.qty - take
         IN [acc EXCEPT !.rows = Append(@, SubRow(orow, take, "R", "AUTOSTORE",
                                                  binr.source_id, binr.loc)),
                        !.any_autostore = TRUE,
                        !.new_bq = (IF left > 0 THEN <<[binr EXCEPT !.qty = left]>> ELSE <<>>)
                                     \o Tail(bq),
                        !.need = need_now - take]

RECURSIVE AutostoreScanKeepsQty(_, _, _, _)
\* variant: a bin with residual quantity is queued again with its full quantity
AutostoreScanKeepsQty(orow, bq, need_now, acc) ==
    IF bq = <<>> \/ need_now <= 0
    THEN [acc EXCEPT !.new_bq = @ \o bq, !.need = need_now]
    ELSE LET binr == Head(bq)
             take == Min(binr.qty, need_now)
             left == IF take > 0 THEN binr.qty - take ELSE binr.qty
             acc1 == IF take > 0
                     THEN [acc EXCEPT !.rows = Append(@, SubRow(orow, take, "R", "AUTOSTORE",
                                                               binr.source_id, binr.loc)),
                                      !.any_autostore = TRUE]
                     ELSE acc
             acc2 == IF left > 0
                     THEN [acc1 EXCEPT !.new_bq = Append(@, binr)]
                     ELSE acc1
         IN AutostoreScanKeepsQty(orow, Tail(bq),
                                  IF take > 0 THEN need_now - take ELSE need_now, acc2)

RECURSIVE AutostoreScanRequeuesLast(_, _, _, _)
\* variant: a bin with residual quantity goes behind the bins that were not reached
AutostoreScanRequeuesLast(orow, bq, need_now, acc) ==
    IF bq = <<>> \/ need_now <= 0
    THEN [acc EXCEPT !.new_bq = bq \o @, !.need = need_now]
    ELSE LET binr == Head(bq)
             take == Min(binr.qty, need_now)
             left == IF take > 0 THEN binr.qty - take ELSE binr.qty
             acc1 == IF take > 0
                     THEN [acc EXCEPT !.rows = Append(@, SubRow(orow, take, "R", "AUTOSTORE",
                                                               binr.source_id, binr.loc)),
                                      !.any_autostore = TRUE]
                     ELSE acc
             acc2 == IF left > 0
                     THEN [acc1 EXCEPT !.new_bq = Append(@, [binr EXCEPT !.qty = left])]
                     ELSE acc1
         IN AutostoreScanRequeuesLast(orow, Tail(bq),
                                      IF take > 0 THEN need_now - take ELSE need_now, acc2)

RECURSIVE AutostoreScan(_, _, _, _)
\* lines 160-175: the while loop over bq and the move of the rest to new_bq.
\* acc = [rows, new_bq, need, any_autostore]
AutostoreScan(orow, bq, need_now, acc) ==
    IF bq = <<>> \/ need_now <= 0
    THEN [acc EXCEPT !.new_bq = @ \o bq, !.need = need_now]
    ELSE LET binr == Head(bq)
             take == Min(binr.qty, need_now)
             left == IF take > 0 THEN binr.qty - take ELSE binr.qty
             acc1 == IF take > 0
                     THEN [acc EXCEPT !.rows = Append(@, SubRow(orow, take, "R", "AUTOSTORE",
                                                               binr.source_id, binr.loc)),
                                      !.any_autostore = TRUE]
                     ELSE acc
             acc2 == IF left > 0
                     THEN [acc1 EXCEPT !.new_bq = Append(@, [binr EXCEPT !.qty = left])]
                     ELSE acc1
         IN AutostoreScan(orow, Tail(bq), IF take > 0 THEN need_now - take ELSE need_now, acc2)

\* lines 157-176: the AUTOSTORE stage of one order line
AutostoreStage(orow, queue, need_now) ==
    AutostoreScan(orow, queue, need_now,
                  [rows |-> <<>>, new_bq |-> <<>>, need |-> need_now, any_autostore |-> FALSE])

\* variant: the fallback row carries the line's requested quantity, not what is left
HuvudplockRowsWholeLine(orow, need_now) ==
    IF need_now > 0 THEN << SubRow(orow, orow.Antal, "A", "HUVUDPLOCK", <<>>, <<>>) >> ELSE <<>>

\* lines 179-189: the rows the HUVUDPLOCK stage appends, none or one
HuvudplockRows(orow, need_now) ==
    IF need_now > 0 THEN << SubRow(orow, need_now, "A", "HUVUDPLOCK", <<>>, <<>>) >> ELSE <<>>

\* line 192: the value written to "Gäller (INSTEAD R/A)"
Mattered(helpall, autostore, mainpick) == ~helpall /\ (autostore \/ mainpick)

\* lines 192-199: every record with the line's (OrderID, OrderRad) gets the flag
TagNearMiss(records, orow, flag) ==
    [k \in 1..Len(records) |->
        IF records[k].OrderID = orow.OrderID /\ records[k].OrderRad = orow.OrderRad
        THEN [records[k] EXCEPT !.Galler = IF flag THEN "True" ELSE "False"]
        ELSE records[k]]

\* variant: the promotion pass rewrites the type and leaves the zone
PromoteRowsTypeOnly(rows) ==
    LET auto_arts == {rows[k].Artikel : k \in {j \in 1..Len(rows) : rows[j].Kalltyp = "AUTOSTORE"}}
    IN [k \in 1..Len(rows) |->
          IF rows[k].Artikel \in auto_arts /\ rows[k].Kalltyp # "HELPALL"
          THEN [rows[k] EXCEPT !.Kalltyp = "AUTOSTORE"]
          ELSE rows[k]]

\* lines 203-221: the promotion pass over the finished result
PromoteRows(rows) ==
    LET auto_arts == {rows[k].Artikel : k \in {j \in 1..Len(rows) : rows[j].Kalltyp = "AUTOSTORE"}}
    IN [k \in 1..Len(rows) |->
          IF rows[k].Artikel \in auto_arts /\ rows[k].Kalltyp # "HELPALL"
          THEN [rows[k] EXCEPT !.Kalltyp = "AUTOSTORE", !.Zon = "R"]
          ELSE rows[k]]

\* lines 16-20: the columns of orders_raw
OrdersRawColumns(has_status) ==
    {"Artikel", "Antal"} \cup (IF has_status THEN {"Status"} ELSE {})
        \cup (IF HasLineCol(orders_raw) THEN {"Radnr"} ELSE {})

\* line 223; "Zon" is the column "Zon (beräknad)"
added_cols == {"Zon", "Kalltyp", "Kalla", "Kallplats"}

\* line 224
ordered_cols(has_status) == OrdersRawColumns(has_status) \cup added_cols

\* variant: the result table is built from the rows alone
AllocatedColumnsOfRows(rows, has_status) ==
    IF rows # <<>> THEN ordered_cols(has_status) ELSE {}

\* lines 225-228: the columns of allocated_df, with rows or without
AllocatedColumns(rows, has_status) ==
    IF rows # <<>> THEN ordered_cols(has_status) ELSE ordered_cols(has_status)

\* lines 113-125, 195, 199: the keys of a near-miss record
NEAR_MISS_KEYS ==
    {"Artikel", "OrderID", "OrderRad", "PallID", "Kallplats", "Mottagen", "Behov",
     "Pall_kvantitet", "Skillnad", "Procent", "Anledning", "Galler"}

\* line 230: pd.DataFrame(near_miss_rows) has the keys of the records as columns
NearMissColumns(records) == IF records # <<>> THEN NEAR_MISS_KEYS ELSE {}

\* refill.py 156-164: the keys of a main-pick refill row
REFILL_HP_KEYS ==
    {"Artikel", "Zon", "Behov", "FIFO", "Tillrackligt", "Plockplats", "Ej_inlagrade"}

\* refill.py 166: pd.DataFrame(rows_hp)
RefillHpColumns(rows) == IF rows # <<>> THEN REFILL_HP_KEYS ELSE {}

\* refill.py 197-204: the keys of an AutoStore refill row
REFILL_AS_KEYS == {"Artikel", "Behov", "FIFO", "Tillrackligt", "Plockplats", "Ej_inlagrade"}

\* refill.py 171, 206: pd.DataFrame() or pd.DataFrame(rows_as)
RefillAsColumns(rows) == IF rows # <<>> THEN REFILL_AS_KEYS ELSE {}

\* the column sets while no table has been returned
NoColumns == [allocated |-> {}, near_miss |-> {}, refill_hp |-> {}, refill_as |-> {}]

(***************************************************************************)
(* allocate as a state machine                                             *)
(***************************************************************************)
\* lines 127-130: the next order line after position k with need > 0, or 0
NextLine(ords, k) ==
    LET later == {j \in (k + 1)..Len(ords) : ords[j].Antal > 0}
    IN IF later = {} THEN 0 ELSE CHOOSE j \in later : \A i \in later : j <= i

\* lines 127-130: enter the next iteration of the loop, or leave the loop
GoNext(ords, k) ==
    LET j == NextLine(ords, k)
    IN /\ line' = (IF j = 0 THEN Len(ords) + 1 ELSE j)
       /\ need' = (IF j = 0 THEN 0 ELSE ords[j].Antal)
       /\ pc' = (IF j = 0 THEN "promote" ELSE "helpall")
       /\ any_helpall' = FALSE
       /\ any_autostore' = FALSE
       /\ pq' = <<>>

RefillVars == <<result_df, refill_hp, refill_as>>
RunVars == <<run, prev_result, app, calls>>
InputVars == <<orders_raw, buffer_raw, saldo_norm, not_putaway_df, order_status_col,
               buff_status_col>>

(***************************************************************************)
(* Working tables. A table is known by a name: the caller's tables by the  *)
(* names of the variables that hold them, a table made inside a call by    *)
(* "local". A column assignment changes the table its name refers to.      *)
(***************************************************************************)
\* variant: the working table is the caller's table itself
NoCopy(name) == name

\* allocation.py 33, 52; refill.py 24, 60, 71: DataFrame.copy() makes a table of
\* its own for the working name
copy(name) == "local"

\* allocation.py 34-37, 53-57; refill.py 47-50, 72-75: column assignments on the
\* working table `target`, seen from the caller's table `name` that holds df:
\* `written` when the working table is that table, df as it was otherwise
Assigned(target, name, df, written) == IF target = name THEN written ELSE df

\* the table raw with the columns cols added (or overwritten), the cells of row i
\* taken from derived[i]
AddColumns(raw, cols, derived) ==
    [i \in 1..Len(raw) |->
        [c \in DOMAIN raw[i] \cup cols |-> IF c \in cols THEN derived[i][c] ELSE raw[i][c]]]

\* allocation.py 34-37: the order table after the four column assignments
OrdersWritten(raw) ==
    AddColumns(raw, {"_artikel", "_qty", "_order_id", "_order_line"},
               [i \in 1..Len(raw) |->
                   [_artikel |-> NormOrders(raw)[i].Artikel, _qty |-> NormOrders(raw)[i].Antal,
                    _order_id |-> NormOrders(raw)[i].OrderID,
                    _order_line |-> NormOrders(raw)[i].OrderRad]])

\* allocation.py 53-57: the buffer table after the five column assignments
BufferWritten(raw) ==
    AddColumns(raw, {"_artikel", "_qty", "_loc", "_received", "_source_id"},
               [i \in 1..Len(raw) |->
                   [_artikel |-> NormBuffer(raw)[i].artikel, _qty |-> NormBuffer(raw)[i].qty,
                    _loc |-> NormBuffer(raw)[i].loc, _received |-> NormBuffer(raw)[i].received,
                    _source_id |-> NormBuffer(raw)[i].source_id]])

\* refill.py 72-75: the buffer table after the four column assignments
SnapshotWritten(raw) ==
    AddColumns(raw, {"_artikel", "_qty", "_received", "_source_id"},
               [i \in 1..Len(raw) |->
                   [_artikel |-> NormBuffer(raw)[i].artikel, _qty |-> NormBuffer(raw)[i].qty,
                    _received |-> NormBuffer(raw)[i].received,
                    _source_id |-> NormBuffer(raw)[i].source_id]])

TableVars == <<saldo_norm, not_putaway_df, order_status_col, buff_status_col>>

\* lines 32-102: normalise, filter, build the queues, start with empty result lists
Prepare ==
    /\ pc = "start"
    /\ LET ords == DropStatus35(NormOrders(orders_raw), order_status_col)
           elig == EligibleBuffer(buffer_raw, buff_status_col)
       IN /\ orders' = ords
          /\ pallet_queues' = [a \in Articles |-> BuildQueue(elig, a, FALSE)]
          /\ bin_queues' = [a \in Articles |-> BuildQueue(elig, a, TRUE)]
          /\ GoNext(ords, 0)
    /\ allocated_rows' = <<>>
    /\ near_miss_rows' = <<>>
    /\ orders_raw' = Assigned(copy("orders_raw"), "orders_raw", orders_raw,
                              OrdersWritten(orders_raw))
    /\ buffer_raw' = Assigned(copy("buffer_raw"), "buffer_raw", buffer_raw,
                              BufferWritten(buffer_raw))
    /\ UNCHANGED <<TableVars, RefillVars, columns, RunVars>>

\* lines 132-154
Helpall ==
    /\ pc = "helpall"
    /\ LET orow == orders[line]
           art == orow.Artikel
           r == HelpallStage(orow, pallet_queues[art], need)
       IN /\ pq' = pallet_queues[art]
          /\ allocated_rows' = allocated_rows \o r.rows
          /\ near_miss_rows' = near_miss_rows \o r.near
          /\ pallet_queues' = [pallet_queues EXCEPT ![art] = r.new_pq]
          /\ need' = r.need
          /\ any_helpall' = r.any_helpall
    /\ pc' = "autostore"
    /\ UNCHANGED <<InputVars, orders, bin_queues, line, any_autostore, RefillVars, columns,
                   RunVars>>

\* lines 156-176
Autostore ==
    /\ pc = "autostore"
    /\ LET orow == orders[line]
           art == orow.Artikel
           r == AutostoreStage(orow, bin_queues[art], need)
       IN /\ allocated_rows' = allocated_rows \o r.rows
          /\ bin_queues' = [bin_queues EXCEPT ![art] = r.new_bq]
          /\ need' = r.need
          /\ any_autostore' = r.any_autostore
    /\ pc' = "huvudplock"
    /\ UNCHANGED <<InputVars, orders, pallet_queues, near_miss_rows, line, any_helpall, pq,
                   RefillVars, columns, RunVars>>

\* lines 178-199, then the loop head
Huvudplock ==
    /\ pc = "huvudplock"
    /\ LET orow == orders[line]
       IN /\ allocated_rows' = allocated_rows \o HuvudplockRows(orow, need)
          /\ near_miss_rows' = TagNearMiss(near_miss_rows, orow,
                                           Mattered(any_helpall, any_autostore, need > 0))
    /\ GoNext(orders, line)
    /\ UNCHANGED <<InputVars, orders, pallet_queues, bin_queues, RefillVars, columns, RunVars>>

\* lines 201-221
Promote ==
    /\ pc = "promote"
    /\ allocated_rows' = PromoteRows(allocated_rows)
    /\ columns' = [columns EXCEPT
                      !.allocated = AllocatedColumns(allocated_rows, order_status_col),
                      !.near_miss = NearMissColumns(near_miss_rows)]
    /\ pc' = "done"
    /\ UNCHANGED <<InputVars, orders, pallet_queues, bin_queues, near_miss_rows, line, need,
                   any_helpall, any_autostore, pq, RefillVars, RunVars>>

(***************************************************************************)
(* allocate as a function of its two tables (allocation.py 11-231)         *)
(***************************************************************************)
RECURSIVE AllocLines(_, _, _, _, _, _)
\* lines 127-221: the loop from order line k on (k = 0: no line left), then the
\* promotion pass
AllocLines(ords, k, pqs, bqs, rows, near) ==
    IF k = 0 \/ k > Len(ords)
    THEN [rows |-> PromoteRows(rows), near |-> near, pallet_queues |-> pqs, bin_queues |-> bqs]
    ELSE LET orow == ords[k]
             art == orow.Artikel
             h == HelpallStage(orow, pqs[art], orow.Antal)
             a == AutostoreStage(orow, bqs[art], h.need)
             flag == Mattered(h.any_helpall, a.any_autostore, a.need > 0)
         IN AllocLines(ords, NextLine(ords, k),
                       [pqs EXCEPT ![art] = h.new_pq],
                       [bqs EXCEPT ![art] = a.new_bq],
                       rows \o h.rows \o a.rows \o HuvudplockRows(orow, a.need),
                       TagNearMiss(near \o h.near, orow, flag))

\* lines 11-231: what allocate returns for the tables o and b, and the queues it
\* ends with
allocate(o, b, ocol, bcol) ==
    LET ords == DropStatus35(NormOrders(o), ocol)
        elig == EligibleBuffer(b, bcol)
    IN AllocLines(ords, NextLine(ords, 0),
                  [a \in Articles |-> BuildQueue(elig, a, FALSE)],
                  [a \in Articles |-> BuildQueue(elig, a, TRUE)],
                  <<>>, <<>>)

(***************************************************************************)
(* _reclassify_skrymmande (refill.py 21-51)                                *)
(***************************************************************************)
SK_MARK == <<"S", "K">>
BRAND_MARK == <<"B", "R", "A", "N", "D">>

\* lines 26-31 (and 91-97): pp_map.get(art, ""): the stripped Plockplats of the first
\* row of the article whose stripped Plockplats is not empty
PpMap(saldo, art) ==
    LET hits == {i \in 1..Len(saldo) :
                    /\ saldo[i].Artikel = art /\ saldo[i].Artikel # ""
                    /\ Strip(saldo[i].Plockplats) # <<>>}
    IN IF hits = {} THEN <<>>
       ELSE Strip(saldo[CHOOSE i \in hits : \A j \in hits : i <= j].Plockplats)

\* lines 43-44
IsBulkyPlace(pp) ==
    LET pp_up == StrUpper(pp)
    IN StartsWith(pp_up, SK_MARK) \/ Contains(pp_up, BRAND_MARK)

\* lines 36, 176: astype(str).str.strip() == "", the test for a cell without text
IsBlank(text) == Strip(text) = <<>>

\* lines 34-38: the rows the reclassifier looks at
IsFallbackRow(row) == IsBlank(row.Kalla) /\ row.Kalltyp \in {"HUVUDPLOCK", "AUTOSTORE"}

\* variant: only the first row that qualifies is reclassified
ReclassifySkrymmandeFirstRow(rows, saldo) ==
    IF rows = <<>> \/ saldo = <<>> THEN rows
    ELSE LET hit == {k \in 1..Len(rows) :
                        IsFallbackRow(rows[k]) /\ IsBulkyPlace(PpMap(saldo, rows[k].Artikel))}
         IN [k \in 1..Len(rows) |->
                IF k \in hit /\ \A j \in hit : k <= j
                THEN [rows[k] EXCEPT !.Kalltyp = "SKRYMMANDE", !.Zon = "S"]
                ELSE rows[k]]

\* lines 21-51
ReclassifySkrymmande(rows, saldo) ==
    IF rows = <<>> \/ saldo = <<>> THEN rows
    ELSE [k \in 1..Len(rows) |->
            IF IsFallbackRow(rows[k]) /\ IsBulkyPlace(PpMap(saldo, rows[k].Artikel))
            THEN [rows[k] EXCEPT !.Kalltyp = "SKRYMMANDE", !.Zon = "S"]
            ELSE rows[k]]

\* gui/app.py 341: result = _reclassify_skrymmande(result, self._saldo_norm)
Reclassify ==
    /\ pc = "done"
    /\ result_df' = ReclassifySkrymmande(allocated_rows, saldo_norm)
    /\ allocated_rows' = (IF allocated_rows = <<>> \/ saldo_norm = <<>> THEN allocated_rows
                          ELSE Assigned(copy("allocated_rows"), "allocated_rows",
                                        allocated_rows,
                                        ReclassifySkrymmande(allocated_rows, saldo_norm)))
    /\ pc' = "reclassified"
    /\ UNCHANGED <<InputVars, orders, pallet_queues, bin_queues,
                   near_miss_rows, line, need, any_helpall, any_autostore, pq, refill_hp,
                   refill_as, columns, RunVars>>

(***************************************************************************)
(* calculate_refill (refill.py 53-212)                                     *)
(***************************************************************************)
\* the positions of keys (pairs of numbers) in ascending order, equal keys in
\* their old order: sort_values on the small tables of the model
RECURSIVE SortedIndices(_, _)
SortedIndices(keys, left) ==
    IF left = {} THEN <<>>
    ELSE LET Before(i, j) ==
                 \/ keys[i][1] < keys[j][1]
                 \/ keys[i][1] = keys[j][1] /\ keys[i][2] < keys[j][2]
                 \/ keys[i] = keys[j] /\ i < j
             m == CHOOSE i \in left : \A j \in left : j = i \/ Before(i, j)
         IN <<m>> \o SortedIndices(keys, left \ {m})

\* builtin round() on the fraction num / den, den > 0: to nearest, ties to even
RoundHalfEven(num, den) ==
    LET f == num \div den
        r == num % den
    IN IF 2 * r < den THEN f
       ELSE IF 2 * r > den THEN f + 1
       ELSE IF f % 2 = 0 THEN f ELSE f + 1

\* variant: the snapshot keeps the statuses of the allocation, 32 included
RefillSnapshotAllocStatuses(raw, has_col) ==
    LET b == NormBuffer(raw)
    IN SelectSeqOf(b, {i \in 1..Len(b) :
            has_col => StatusAllowed(b[i].status, ALLOC_BUFFER_STATUSES)})

\* lines 71-81: the buffer snapshot of the refill, statuses 29/30 only
RefillSnapshot(raw, has_col) ==
    LET b == NormBuffer(raw)
    IN SelectSeqOf(b, {i \in 1..Len(b) :
            has_col => StatusAllowed(b[i].status, REFILL_BUFFER_STATUSES)})

\* variant: no unit is taken out of the snapshot
UsedHelpIdsNone(result) == {}

\* lines 83-85
UsedHelpIds(result) ==
    {result[k].Kalla : k \in {j \in 1..Len(result) : result[j].Kalltyp = "HELPALL"}}

\* variant: the units stay in the order of the buffer table
fifo_for_art_unsorted(b, used_help_ids, art_key) ==
    SelectSeqOf(b, {i \in 1..Len(b) :
        b[i].artikel = art_key /\ b[i].source_id \notin used_help_ids})

\* lines 114-118: the article's units that no HELPALL row used, by received time,
\* units without one last
fifo_for_art(b, used_help_ids, art_key) ==
    LET d == SelectSeqOf(b, {i \in 1..Len(b) :
                 b[i].artikel = art_key /\ b[i].source_id \notin used_help_ids})
        keys == [k \in 1..Len(d) |->
                    <<IF d[k].received = NaT THEN 1 ELSE 0,
                      IF d[k].received = NaT THEN 0 ELSE d[k].received>>]
        order == SortedIndices(keys, 1..Len(d))
    IN [k \in 1..Len(d) |-> d[order[k]]]

\* lines 87-97: saldo_sum.get(art, 0.0)
SaldoSum(saldo, art) ==
    SumSeq([i \in 1..Len(saldo) |-> IF saldo[i].Artikel = art THEN saldo[i].Plocksaldo ELSE 0])

\* lines 102-110: npu_sum.get(art, 0.0)
NpuSum(npu, art) ==
    SumSeq([i \in 1..Len(npu) |-> IF npu[i].artikel = art THEN npu[i].antal ELSE 0])

\* summed quantity of the rows of result with the article and a type in types
Demand(result, art, types) ==
    SumSeq([k \in 1..Len(result) |->
               IF result[k].Artikel = art /\ result[k].Kalltyp \in types
               THEN result[k].Antal ELSE 0])

\* lines 120-127: the article's zone groups, zone A (HUVUDPLOCK) before zone S
ZoneGroups(result, art) ==
    LET has(t) == \E k \in 1..Len(result) : result[k].Artikel = art /\ result[k].Kalltyp = t
        a == IF has("HUVUDPLOCK")
             THEN <<[zone |-> "A", qty |-> Demand(result, art, {"HUVUDPLOCK"})]>> ELSE <<>>
        z == IF has("SKRYMMANDE")
             THEN <<[zone |-> "S", qty |-> Demand(result, art, {"SKRYMMANDE"})]>> ELSE <<>>
    IN a \o z

RECURSIVE PowMod2(_, _)
\* 2^n modulo m
PowMod2(n, m) == IF n = 0 THEN 1 % m ELSE (2 * PowMod2(n - 1, m)) % m

RECURSIVE ShiftsToOne(_, _)
\* the binary exponent of the quotient q / t, negated: the doublings that bring it to
\* [1, 2), for 0 < q <= t
ShiftsToOne(q, t) == IF q >= t THEN 0 ELSE 1 + ShiftsToOne(2 * q, t)

RECURSIVE Log2Floor(_)
Log2Floor(k) == IF k < 2 THEN 0 ELSE 1 + Log2Floor(k \div 2)

\* lines 139-140: int(round((q / total_need) * adjusted_total)) in double precision.
\* The two roundings of the quotient and of the product move the value by less than
\* the distance to the next half-integer unless the exact share is a half-integer
\* k + 1/2; then the quotient, rounded to 53 bits, is off by eps / 2^(52 + kq) and the
\* product is rounded back to k + 1/2 only when that error times adjusted_total is at
\* most half a unit in the last place of k + 1/2.
RefillShare(q, total_need, adjusted_total) ==
    LET num == q * adjusted_total
        k == num \div total_need
        half == (2 * num) % total_need = 0 /\ ((2 * num) \div total_need) % 2 = 1
        kq == ShiftsToOne(q, total_need)
        j == IF k = 0 THEN 0 - 1 ELSE Log2Floor(k)
        r == (q * PowMod2(52 + kq, total_need)) % total_need
        eps == IF r = 0 THEN 0 ELSE IF 2 * r < total_need THEN 0 - r ELSE total_need - r
        mag == IF eps < 0 THEN 0 - eps ELSE eps
        far == 4 * mag * adjusted_total > total_need * 2 ^ (kq + j + 1)
    IN IF ~half THEN RoundHalfEven(num, total_need)
       ELSE IF far /\ eps < 0 THEN k
       ELSE IF far /\ eps > 0 THEN k + 1
       ELSE RoundHalfEven(num, total_need)

\* variant: every share rounded on its own and the remainder dropped
RefillPartsNoRemainder(groups, total_need, adjusted_total) ==
    [k \in 1..Len(groups) |->
        [zone |-> groups[k].zone,
         behov |-> RefillShare(groups[k].qty, total_need, adjusted_total)]]

\* lines 135-143: the shortfall adjusted_total split over the groups in proportion
\* to their demand, each share rounded on its own, the remainder to the first
RefillParts(groups, total_need, adjusted_total) ==
    LET val == [k \in 1..Len(groups) |->
                   RefillShare(groups[k].qty, total_need, adjusted_total)]
        diff == adjusted_total - SumSeq(val)
    IN [k \in 1..Len(groups) |->
           [zone |-> groups[k].zone, behov |-> val[k] + (IF k = 1 THEN diff ELSE 0)]]

RECURSIVE FifoCount(_, _)
\* lines 151-154, 192-195: units taken from the front until the need is covered
FifoCount(fifo, remaining) ==
    IF fifo = <<>> \/ remaining <= 0 THEN 0
    ELSE 1 + FifoCount(Tail(fifo), remaining - Head(fifo).qty)

\* lines 146, 189
Tillgangligt(fifo) == SumSeq([k \in 1..Len(fifo) |-> fifo[k].qty])

\* lines 156-164, 197-204: one refill row; the AutoStore report has no zone ("")
RefillRow(art, zone, behov_int, fifo, saldo, npu) ==
    [Artikel |-> art, Zon |-> zone, Behov |-> behov_int,
     FIFO |-> FifoCount(fifo, behov_int),
     Tillrackligt |-> IF Tillgangligt(fifo) >= behov_int THEN "Ja" ELSE "Nej",
     Plockplats |-> PpMap(saldo, art),
     Ej_inlagrade |-> NpuSum(npu, art)]

\* variant: the main-pick report also counts the article's AUTOSTORE lines
MainPickRowsCountsAutostore(result, b, saldo, npu, art) ==
    LET total_need == Demand(result, art, {"HUVUDPLOCK", "SKRYMMANDE", "AUTOSTORE"})
        adjusted_total == Max(0, total_need - SaldoSum(saldo, art))
    IN IF total_need <= 0 \/ adjusted_total <= 0 THEN <<>>
       ELSE << RefillRow(art, "A", adjusted_total,
                         fifo_for_art(b, UsedHelpIds(result), art), saldo, npu) >>

\* lines 129-164: the main-pick rows of one article
MainPickRows(result, b, saldo, npu, art) ==
    LET groups == ZoneGroups(result, art)
        total_need == Demand(result, art, {"HUVUDPLOCK", "SKRYMMANDE"})
        adjusted_total == Max(0, total_need - SaldoSum(saldo, art))
    IN IF groups = <<>> \/ total_need <= 0 \/ adjusted_total <= 0 THEN <<>>
       ELSE LET parts == RefillParts(groups, total_need, adjusted_total)
                fifo == fifo_for_art(b, UsedHelpIds(result), art)
                keep == {k \in 1..Len(parts) : Max(0, parts[k].behov) > 0}
                live == SelectSeqOf(parts, keep)
            IN [k \in 1..Len(live) |->
                   RefillRow(art, live[k].zone, live[k].behov, fifo, saldo, npu)]

\* lines 172-204: the AutoStore rows of one article, from AUTOSTORE rows without source
AutoStoreRows(result, b, saldo, npu, art) ==
    LET has == \E k \in 1..Len(result) :
                   /\ result[k].Artikel = art /\ result[k].Kalltyp = "AUTOSTORE"
                   /\ IsBlank(result[k].Kalla)
        behov == SumSeq([k \in 1..Len(result) |->
                     IF result[k].Artikel = art /\ result[k].Kalltyp = "AUTOSTORE"
                        /\ IsBlank(result[k].Kalla)
                     THEN result[k].Antal ELSE 0])
        behov_int == Max(0, behov - SaldoSum(saldo, art))
    IN IF ~has \/ behov_int <= 0 THEN <<>>
       ELSE << RefillRow(art, "", behov_int, fifo_for_art(b, UsedHelpIds(result), art),
                         saldo, npu) >>

RECURSIVE ConcatOver(_, _, _)
\* the rows f[art] of the articles in their order, one article after the other
ConcatOver(f, arts, k) ==
    IF k > Len(arts) THEN <<>> ELSE f[arts[k]] \o ConcatOver(f, arts, k + 1)

\* lines 166-168: sort_values(["Zon", "FIFO-baserad beräkning"], ascending=[True, False])
SortMainPick(rows) ==
    LET keys == [k \in 1..Len(rows) |->
                    <<IF rows[k].Zon = "A" THEN 0 ELSE 1, 0 - rows[k].FIFO>>]
        order == SortedIndices(keys, 1..Len(rows))
    IN [k \in 1..Len(rows) |-> rows[order[k]]]

\* lines 206-208: sort_values("FIFO-baserad beräkning", ascending=False)
SortAutoStore(rows) ==
    LET keys == [k \in 1..Len(rows) |-> <<0 - rows[k].FIFO, 0>>]
        order == SortedIndices(keys, 1..Len(rows))
    IN [k \in 1..Len(rows) |-> rows[order[k]]]

\* lines 120-168: the main-pick report
RefillMainPick(result, raw, has_col, saldo, npu) ==
    LET b == RefillSnapshot(raw, has_col)
    IN SortMainPick(ConcatOver([a \in Articles |-> MainPickRows(result, b, saldo, npu, a)],
                               ArticleOrder, 1))

\* lines 170-210: the AutoStore report
RefillAutoStore(result, raw, has_col, saldo, npu) ==
    LET b == RefillSnapshot(raw, has_col)
    IN SortAutoStore(ConcatOver([a \in Articles |-> AutoStoreRows(result, b, saldo, npu, a)],
                                ArticleOrder, 1))

\* gui/app.py 355-362: hp_df, as_df = calculate_refill(result, buffer_raw, saldo, npu)
CalculateRefill ==
    /\ pc = "reclassified"
    /\ refill_hp' = RefillMainPick(result_df, buffer_raw, buff_status_col, saldo_norm,
                                   not_putaway_df)
    /\ refill_as' = RefillAutoStore(result_df, buffer_raw, buff_status_col, saldo_norm,
                                    not_putaway_df)
    /\ columns' = [columns EXCEPT
                      !.refill_hp = RefillHpColumns(RefillMainPick(result_df, buffer_raw,
                                        buff_status_col, saldo_norm, not_putaway_df)),
                      !.refill_as = RefillAsColumns(RefillAutoStore(result_df, buffer_raw,
                                        buff_status_col, saldo_norm, not_putaway_df))]
    /\ buffer_raw' = Assigned(copy(copy("buffer_raw")), "buffer_raw", buffer_raw,
                              SnapshotWritten(buffer_raw))
    /\ pc' = "refilled"
    /\ UNCHANGED <<orders_raw, TableVars, orders, pallet_queues, bin_queues, allocated_rows,
                   near_miss_rows, line, need, any_helpall, any_autostore, pq, result_df,
                   RunVars>>

(***************************************************************************)
(* Inputs                                                                  *)
(***************************************************************************)
RECURSIVE TablesUpTo(_, _)
\* the tables (sequences of rows from the set rows, each of quantity >= 1) whose
\* quantities add up to at most total
TablesUpTo(rows, total) ==
    {<<>>} \cup UNION { { <<r>> \o t : t \in TablesUpTo(rows, total - r.qty) } :
                        r \in {x \in rows : x.qty <= total} }

\* the buffer table b with an id column whose cells are the texts ids, row by row
WithIds(b, ids) ==
    [k \in 1..Len(b) |->
        [f \in DOMAIN b[k] \cup {"id"} |-> IF f = "id" THEN ids[k] ELSE b[k][f]]]

Status20 == <<"2", "0">>
Status30 == <<"3", "0">>
Status35 == <<"3", "5">>
LocPallet == <<"B", "1">>
LocBin == <<"A", "u", "t", "o", "S", "t", "o", "r", "e">>

\* gui/app.py 80-82, 106-116: App.__init__; no table is cached (None, here the flags
\* has_result and has_refill are FALSE) and the three open buttons are disabled
AppInit ==
    [orders_raw |-> <<>>, has_buffer |-> FALSE, buffer_raw |-> <<>>,
     has_result |-> FALSE, last_result_df |-> <<>>, last_nearmiss_instead_df |-> <<>>,
     has_refill |-> FALSE, last_refill_hp_df |-> <<>>, last_refill_autostore_df |-> <<>>,
     open_result_btn |-> "disabled", open_nearmiss_btn |-> "disabled",
     open_refill_btn |-> "disabled"]

\* a state of the run at position at, with the inputs and what has been computed
StateAt(at, o, b, ocol, bcol, saldo, npu, rows, res) ==
    /\ orders_raw = o
    /\ buffer_raw = b
    /\ order_status_col = ocol
    /\ buff_status_col = bcol
    /\ saldo_norm = saldo
    /\ not_putaway_df = npu
    /\ orders = <<>>
    /\ pallet_queues = [a \in Articles |-> <<>>]
    /\ bin_queues = [a \in Articles |-> <<>>]
    /\ allocated_rows = rows
    /\ near_miss_rows = <<>>
    /\ line = 0
    /\ need = 0
    /\ any_helpall = FALSE
    /\ any_autostore = FALSE
    /\ pq = <<>>
    /\ result_df = res
    /\ refill_hp = <<>>
    /\ refill_as = <<>>
    /\ columns = (IF at = "start" THEN NoColumns
                  ELSE [NoColumns EXCEPT !.allocated = AllocatedColumns(rows, ocol)])
    /\ run = 1
    /\ prev_result = <<>>
    /\ app = AppInit
    /\ calls = <<>>
    /\ pc = at

\* the state of the run before allocate is called on (orders_raw, buffer_raw)
Start(o, b, ocol, bcol) == StateAt("start", o, b, ocol, bcol, <<>>, <<>>, <<>>, <<>>)

OrderRows == [artikel : Articles, qty : 1..MaxDemand, status : {Status20, Status35}]
BufferRows == [artikel : Articles, qty : 1..MaxStock, loc : {LocPallet, LocBin},
               status : {Status30}, received : {NaT}]

Init ==
    \E o \in TablesUpTo(OrderRows, MaxDemand), b \in TablesUpTo(BufferRows, MaxStock) :
        Start(o, b, TRUE, TRUE)

Next ==
    \/ Prepare \/ Helpall \/ Autostore \/ Huvudplock \/ Promote
    \/ Reclassify \/ CalculateRefill

Spec == Init /\ [][Next]_vars

(***************************************************************************)
(* SpecNearMiss: one order line against up to NearMaxPallets pallets and   *)
(* at most one bin of its article, with quantities large enough for the    *)
(* 15 % rule to apply.                                                     *)
(***************************************************************************)
RECURSIVE SeqsUpToLen(_, _)
\* the sequences over S of length at most n
SeqsUpToLen(S, n) ==
    IF n = 0 THEN {<<>>}
    ELSE LET shorter == SeqsUpToLen(S, n - 1)
         IN shorter \cup {Append(t, x) : t \in {u \in shorter : Len(u) = n - 1}, x \in S}

NearPallet(q) == [artikel |-> "A1", qty |-> q, loc |-> LocPallet, status |-> Status30,
                  received |-> NaT]
NearBin(q) == [artikel |-> "A1", qty |-> q, loc |-> LocBin, status |-> Status30,
               received |-> NaT]

InitNearMiss ==
    \E n \in 1..NearMaxNeed :
      \E qs \in SeqsUpToLen(1..(n + NearMaxOver), NearMaxPallets),
         bs \in {<<>>} \cup {<<NearBin(q)>> : q \in 1..NearMaxBin} :
        Start(<<[artikel |-> "A1", qty |-> n, status |-> Status20]>>,
              [k \in 1..Len(qs) |-> NearPallet(qs[k])] \o bs, TRUE, TRUE)

SpecNearMiss == InitNearMiss /\ [][Next]_vars

(***************************************************************************)
(* SpecReclassify: the reclassifier on any small allocation result and     *)
(* pick-face table, ReclassMaxRows rows in the two tables together.        *)
(***************************************************************************)
ZoneOfType(t) ==
    CASE t = "HELPALL" -> "H" [] t = "AUTOSTORE" -> "R" [] t = "HUVUDPLOCK" -> "A"
      [] t = "SKRYMMANDE" -> "S"

ResultRow(art, t, q, kalla) ==
    [Artikel |-> art, Antal |-> q, OrderID |-> "", OrderRad |-> "0", Zon |-> ZoneOfType(t),
     Kalltyp |-> t, Kalla |-> kalla, Kallplats |-> <<>>]

PlaceSamples ==
    { <<>>,                                \* ""
      <<" ">>,                             \* " "
      <<"B", "1">>,                        \* "B1"
      <<"S", "K", "1">>,                   \* "SK1"
      <<" ", "s", "K", "1">>,              \* " sK1"
      <<"A", "S", "K">>,                   \* "ASK"
      <<"x", "b", "R", "a", "n", "d">> }   \* "xbRand"

\* rows of every type with and without source unit, and rows that name a unit
\* whose id in the buffer table is " "
ReclassRows ==
    {ResultRow(a, t, 1, k) : a \in Articles,
                             t \in {"HELPALL", "AUTOSTORE", "HUVUDPLOCK", "SKRYMMANDE"},
                             k \in {<<>>, SourceId(1)}}
    \cup {ResultRow(a, t, 1, <<" ">>) : a \in Articles, t \in {"HELPALL", "AUTOSTORE"}}
ReclassSaldoRows == [Artikel : Articles, Plocksaldo : {0}, Plockplats : PlaceSamples]

InitReclassify ==
    \E rows \in SeqsUpToLen(ReclassRows, ReclassMaxRows) :
      \E saldo \in SeqsUpToLen(ReclassSaldoRows, ReclassMaxRows - Len(rows)) :
        StateAt("done", <<>>, <<>>, TRUE, TRUE, saldo, <<>>, rows, <<>>)

\* the two steps of the run that follow allocate
NextReport == Reclassify \/ CalculateRefill

SpecReclassify == InitReclassify /\ [][NextReport]_vars

(***************************************************************************)
(* SpecRefill: calculate_refill on results with at most one row per        *)
(* article and source type; article A1 has the large demands.              *)
(***************************************************************************)
RefillBuffer ==
    << [artikel |-> "A1", qty |-> 2, loc |-> LocPallet, status |-> Status30, received |-> NaT],
       [artikel |-> "A1", qty |-> 3, loc |-> LocPallet, status |-> Status30, received |-> 1],
       [artikel |-> "A2", qty |-> 1, loc |-> LocPallet, status |-> Status20, received |-> NaT] >>

\* the row of (article, type) with quantity q, none for q = 0
RowIf(art, t, q) == IF q > 0 THEN <<ResultRow(art, t, q, <<>>)>> ELSE <<>>

InitRefill ==
    \E a1 \in [{"HUVUDPLOCK", "SKRYMMANDE"} -> 0..RefillMaxQty],
       a2 \in [{"HUVUDPLOCK", "SKRYMMANDE", "AUTOSTORE"} -> 0..RefillMaxSmall],
       s \in [Articles -> 0..RefillMaxSaldo] :
        StateAt("reclassified", <<>>, RefillBuffer, TRUE, TRUE,
                [k \in 1..2 |-> [Artikel |-> ArticleOrder[k], Plocksaldo |-> s[ArticleOrder[k]],
                                 Plockplats |-> <<"B", "1">>]],
                << [artikel |-> "A1", antal |-> 4] >>,
                <<>>,
                RowIf("A2", "SKRYMMANDE", a2["SKRYMMANDE"]) \o RowIf("A1", "SKRYMMANDE", a1["SKRYMMANDE"])
                  \o RowIf("A2", "AUTOSTORE", a2["AUTOSTORE"]) \o RowIf("A1", "HUVUDPLOCK", a1["HUVUDPLOCK"])
                  \o RowIf("A2", "HUVUDPLOCK", a2["HUVUDPLOCK"]))

SpecRefill == InitRefill /\ [][CalculateRefill]_vars

(***************************************************************************)
(* SpecPipeline: the whole run (allocate, reclassifier, refill) on small   *)
(* tables with a pick-face table: a stock per article, and a pick-face     *)
(* location of article A1 that is bulky or not; the buffer table has an id *)
(* column or not.                                                          *)
(***************************************************************************)
PipeOrderRows == [artikel : Articles, qty : 1..PipeMaxDemand, status : {Status20}]
PipeBufferRows == [artikel : Articles, qty : 1..PipeMaxStock, loc : {LocPallet, LocBin},
                   status : {Status30}, received : {NaT}]

\* the id cells of the buffer table when it has an id column: " " in the first row,
\* then "P2", "P3", ...
PipeIds == [k \in 1..(PipeMaxStock + 1) |-> IF k = 1 THEN <<" ">> ELSE <<"P">> \o IntText(k)]

InitPipeline ==
    \E o \in TablesUpTo(PipeOrderRows, PipeMaxDemand),
       b0 \in TablesUpTo(PipeBufferRows, PipeMaxStock),
       s \in [Articles -> 0..PipeMaxSaldo],
       place \in {<<"B", "1">>, <<"S", "K", "1">>, <<" ", "s", "K", "1">>} :
      \E b \in {b0, WithIds(b0, PipeIds)} :
        StateAt("start", o, b, TRUE, TRUE,
                << [Artikel |-> "A1", Plocksaldo |-> s["A1"], Plockplats |-> place],
                   [Artikel |-> "A2", Plocksaldo |-> s["A2"], Plockplats |-> <<"B", "1">>] >>,
                <<>>, <<>>, <<>>)

SpecPipeline == InitPipeline /\ [][Next]_vars

(***************************************************************************)
(* SpecTwice: the run repeated on the same input tables, as the caller     *)
(* does when the user starts the allocation again.                         *)
(***************************************************************************)
\* gui/app.py 341: allocate is called again on the same tables; what the earlier
\* call returned is remembered for comparison
Rerun ==
    /\ pc = "refilled"
    /\ run < MaxRuns
    /\ run' = run + 1
    /\ prev_result' = <<allocated_rows, near_miss_rows>>
    /\ pc' = "start"
    /\ UNCHANGED <<InputVars, orders, pallet_queues, bin_queues, allocated_rows,
                   near_miss_rows, line, need, any_helpall, any_autostore, pq, RefillVars,
                   columns, app, calls>>

(***************************************************************************)
(* SpecGui: the window. "Run allocation" is pressed any number of times,   *)
(* each time on the files chosen then; the saldo and not-putaway files are *)
(* not chosen. Every log line of the handler ends in update()              *)
(* (utils/common.py 93), which handles the pending events, a further press *)
(* among them: the handler runs from one log line to the next in one step, *)
(* and at a log line a nested handler may start and run to its end.        *)
(* A step of the handler that raises is an input of the run.               *)
(***************************************************************************)
GuiMaxQty == 1
MaxNested == 2

GuiOrderTables ==
    {<<[artikel |-> a, qty |-> q, status |-> Status20]>> :
        a \in Articles, q \in 1..GuiMaxQty}

GuiBufferTables ==
    {<<>>} \cup {<<[artikel |-> a, qty |-> q, loc |-> LocPallet, status |-> Status30,
                    received |-> NaT]>> :
                    a \in Articles, q \in 1..GuiMaxQty}

\* the step of run_allocation that raises, "none" when the run goes through
GuiOutcomes == {"read", "allocate", "refill", "none"}

\* gui/app.py 344: the near-miss records whose flag is True
NearInstead(near) == SelectSeq(near, LAMBDA r : r.Galler = "True")

\* the handler that is running: the last of the nested calls
TopCall == calls[Len(calls)]

SetTop(c) == [calls EXCEPT ![Len(calls)] = c]

PopCall == SubSeq(calls, 1, Len(calls) - 1)

GuiOther == <<InputVars, orders, pallet_queues, bin_queues, allocated_rows, near_miss_rows,
              line, need, any_helpall, any_autostore, pq, RefillVars, columns, run,
              prev_result, pc>>

\* gui/app.py 302-313: the button is pressed with the files (o, b) chosen; the handler
\* runs to its first log line
PressRun ==
    /\ Len(calls) < MaxNested
    /\ \E o \in GuiOrderTables, b \in GuiBufferTables, fails \in GuiOutcomes :
          calls' = Append(calls, [at |-> "log_read", orders_file |-> o, buffer_file |-> b,
                                  fails |-> fails, orders_raw |-> <<>>,
                                  buffer_raw |-> <<>>])
    /\ UNCHANGED <<app, GuiOther>>

\* gui/app.py 314-340: the files are read and kept in the window; a read that raises
\* ends the handler
ReadFiles ==
    /\ calls # <<>> /\ TopCall.at = "log_read"
    /\ IF TopCall.fails = "read"
       THEN calls' = PopCall /\ UNCHANGED app
       ELSE /\ app' = [app EXCEPT !.orders_raw = TopCall.orders_file,
                                  !.has_buffer = TRUE,
                                  !.buffer_raw = TopCall.buffer_file]
            /\ calls' = SetTop([TopCall EXCEPT !.at = "log_run"])
    /\ UNCHANGED GuiOther

\* gui/app.py 341, allocation.py 11-30: allocate is called on the tables the window
\* holds now and runs to its first log line; a call that raises ends the handler
CallAllocate ==
    /\ calls # <<>> /\ TopCall.at = "log_run"
    /\ IF TopCall.fails = "allocate"
       THEN calls' = PopCall
       ELSE calls' = SetTop([TopCall EXCEPT !.at = "log_allocate",
                                            !.orders_raw = app.orders_raw,
                                            !.buffer_raw = app.buffer_raw])
    /\ UNCHANGED <<app, GuiOther>>

\* allocation.py 31-231, gui/app.py 341-367: allocate returns, the result is cached,
\* calculate_refill runs on it and on the buffer table the window holds now, and the
\* reports are cached unless it raises
CacheResult ==
    /\ calls # <<>> /\ TopCall.at = "log_allocate"
    /\ LET res == allocate(TopCall.orders_raw, TopCall.buffer_raw, TRUE, TRUE)
           result == ReclassifySkrymmande(res.rows, <<>>)
           cached == [app EXCEPT !.has_result = TRUE,
                                 !.last_result_df = result,
                                 !.last_nearmiss_instead_df = NearInstead(res.near)]
       IN app' = IF TopCall.fails = "refill" THEN cached
                 ELSE [cached EXCEPT
                          !.has_refill = TRUE,
                          !.last_refill_hp_df =
                              RefillMainPick(result, app.buffer_raw, TRUE, <<>>, <<>>),
                          !.last_refill_autostore_df =
                              RefillAutoStore(result, app.buffer_raw, TRUE, <<>>, <<>>)]
    /\ calls' = SetTop([TopCall EXCEPT !.at = "log_refill"])
    /\ UNCHANGED GuiOther

\* gui/app.py 369-371: the three buttons, from the near-miss table of this call
EnableButtons ==
    /\ calls # <<>> /\ TopCall.at = "log_refill"
    /\ LET res == allocate(TopCall.orders_raw, TopCall.buffer_raw, TRUE, TRUE)
       IN app' = [app EXCEPT !.open_result_btn = "normal",
                             !.open_nearmiss_btn = (IF NearInstead(res.near) # <<>>
                                                    THEN "normal" ELSE "disabled"),
                             !.open_refill_btn = "normal"]
    /\ calls' = PopCall
    /\ UNCHANGED GuiOther

\* gui/app.py 171-247: "open sales insights" is pressed with a pick log chosen, at rest
\* or at a log line of a running handler. While the window holds no buffer table
\* (None) and a buffer file is chosen, the file is read and kept (190-199); a read
\* that raises is only logged. The handler writes nothing else of app, so a press
\* handled at one of its own log lines acts as one handled after it.
ComputeAndOpenSales ==
    /\ ~app.has_buffer
    /\ \E b \in GuiBufferTables :
          app' = [app EXCEPT !.has_buffer = TRUE, !.buffer_raw = b]
    /\ UNCHANGED <<calls, GuiOther>>

NextGui ==
    PressRun \/ ReadFiles \/ CallAllocate \/ CacheResult \/ EnableButtons
      \/ ComputeAndOpenSales

\* gui/app.py 144-148: "open result" has a table to show
open_result_offered ==
    app.open_result_btn = "normal" /\ app.has_result /\ app.last_result_df # <<>>

\* gui/app.py 157-169: "open refill" has reports to show
open_refill_offered == app.open_refill_btn = "normal" /\ app.has_refill

InitGui == Start(<<>>, <<>>, TRUE, TRUE)

SpecGui == InitGui /\ [][NextGui]_vars

NextTwice == Next \/ Rerun

SpecTwice == InitPipeline /\ [][NextTwice]_vars

(***************************************************************************)
(* SpecScoped: one order line of article A1 and two pallets of A1 that     *)
(* stand behind up to ScopedMaxPad buffer rows of article A2; no received  *)
(* times, so the source ids decide the order of the queue.                 *)
(***************************************************************************)
PadRow == [artikel |-> "A2", qty |-> 1, loc |-> LocPallet, status |-> Status30, received |-> NaT]

InitScoped ==
    \E pad \in 0..ScopedMaxPad, q1 \in 1..ScopedMaxQty, q2 \in 1..ScopedMaxQty,
       n \in 1..ScopedMaxQty, other \in BOOLEAN :
        Start((IF other THEN << [artikel |-> "A2", qty |-> 1, status |-> Status20] >> ELSE <<>>)
                \o << [artikel |-> "A1", qty |-> n, status |-> Status20] >>,
              [k \in 1..pad |-> PadRow] \o << NearPallet(q1), NearPallet(q2) >>,
              TRUE, TRUE)

SpecScoped == InitScoped /\ [][Next]_vars

(***************************************************************************)
(* SpecFifo: two order lines of article A1 against up to three units of    *)
(* A1, all pallets or all bins, with or without received times, in a       *)
(* buffer table with or without id column.                                 *)
(***************************************************************************)
FifoUnits(place) == [artikel : {"A1"}, qty : 1..FifoMaxQty, loc : {place},
                     status : {Status30}, received : {NaT} \cup 1..FifoMaxTime]

\* the id cells of the buffer table when it has an id column: the later row has
\* the id that sorts first
FifoIds == << <<"P", "3">>, <<"P", "2", "0">>, <<"P", "1", "0">> >>

InitFifo ==
    \E place \in {LocPallet, LocBin}, n1 \in 1..FifoMaxQty, n2 \in 1..FifoMaxQty :
      \E u1 \in FifoUnits(place), u2 \in FifoUnits(place), u3 \in FifoUnits(place) :
        \E b0 \in {<<u1>>, <<u1, u2>>, <<u1, u2, u3>>} :
         \E b \in {b0, WithIds(b0, FifoIds)} :
          Start(<< [artikel |-> "A1", qty |-> n1, status |-> Status20],
                   [artikel |-> "A1", qty |-> n2, status |-> Status20] >>,
                b, TRUE, TRUE)

SpecFifo == InitFifo /\ [][Next]_vars

(***************************************************************************)
(* SpecFilter: one order line of article A1 against up to two units of A1, *)
(* one of any status text, location and quantity, zero included, the other *)
(* of the plainer ones, in either order; the buffer has a status column or *)
(* not.                                                                    *)
(***************************************************************************)
PlainStatuses == {Status30, Status20, <<"x">>}
FilterStatuses == PlainStatuses \cup
                  {<<"k", "3", "2">>, <<"-", "3", "0">>, <<" ", "2", "9", " ">>,
                   <<"U+0663", "3", "0">>}
PlainLocs == {LocPallet, LocBin, <<"a", "a", "1">>}
FilterLocs == PlainLocs \cup
              {<<"T", "r", "a", "n", "s", "i", "t">>, <<"u", "t", "2">>,
               <<"M", "i", "s", "s", "i", "n", "g">>, <<"m", "i", "ß", "i", "n", "g">>,
               <<" ", "a", "a", "1">>,
               <<"a", "u", "t", "o", "U+FB06", "o", "r", "e">>,
               <<"a", "u", "t", "o", "U+017F", "t", "o", "r", "e">>}
FilterQtys == {0} \cup FilterNeed..(FilterNeed + FilterMaxOver)
FilterUnits == [artikel : {"A1"}, qty : FilterQtys, loc : FilterLocs, status : FilterStatuses,
                received : {NaT}]
PlainUnits == [artikel : {"A1"}, qty : FilterQtys, loc : PlainLocs, status : PlainStatuses,
               received : {NaT}]

InitFilter ==
    \E u1 \in FilterUnits, u2 \in PlainUnits, bcol \in BOOLEAN :
      \E b \in {<<>>, <<u1>>, <<u1, u2>>, <<u2, u1>>} :
        Start(<< [artikel |-> "A1", qty |-> FilterNeed, status |-> Status20] >>, b, TRUE, bcol)

SpecFilter == InitFilter /\ [][Next]_vars

(***************************************************************************)
(* SpecDeadLines: up to three order lines of article A1 with status 20 or  *)
(* 35 (the first also with other status texts) and a requested quantity    *)
(* that may be zero or negative, against the pallets and bins of A1; the   *)
(* order table has a status column or not.                                 *)
(***************************************************************************)
DeadOrderRows == [artikel : {"A1"}, qty : (0 - 1)..DeadMaxQty, status : {Status20, Status35}]
\* the first line may also have a status text that is 35 behind a digit that is
\* not one of 0-9, or 35 within white space
DeadFirstRows == DeadOrderRows \cup
                 [artikel : {"A1"}, qty : 1..DeadMaxQty,
                  status : {<<"U+0663", "3", "5">>, <<" ", "3", "5", " ">>}]
DeadBufferRows == [artikel : {"A1"}, qty : 1..MaxStock, loc : {LocPallet, LocBin},
                   status : {Status30}, received : {NaT}]

InitDeadLines ==
    \E l1 \in DeadFirstRows, l2 \in DeadOrderRows, l3 \in DeadOrderRows, ocol \in BOOLEAN :
      \E o \in {<<l1>>, <<l1, l2>>, <<l1, l2, l3>>},
         b \in TablesUpTo(DeadBufferRows, MaxStock) :
        Start(o, b, ocol, TRUE)

SpecDeadLines == InitDeadLines /\ [][Next]_vars

(***************************************************************************)
(* SpecKeys: two order lines of article A1 against up to two pallets of    *)
(* A1; the order table has a line-id column, whose values may repeat, or   *)
(* has none.                                                               *)
(***************************************************************************)
KeyQtys == KeyNeed..(KeyNeed + KeyMaxOver)
KeyLine(n, id) == [artikel |-> "A1", qty |-> n, status |-> Status20, radnr |-> id]

InitKeys ==
    \E n1 \in KeyQtys, n2 \in KeyQtys, qs \in SeqsUpToLen(KeyQtys, 2) :
      \E o \in {<< [artikel |-> "A1", qty |-> n1, status |-> Status20],
                   [artikel |-> "A1", qty |-> n2, status |-> Status20] >>}
               \cup {<<KeyLine(n1, id1), KeyLine(n2, id2)>> : id1 \in {"1", "2"}, id2 \in {"1", "2"}} :
        Start(o, [k \in 1..Len(qs) |-> NearPallet(qs[k])], TRUE, TRUE)

SpecKeys == InitKeys /\ [][Next]_vars

(***************************************************************************)
(* Vocabulary of the claims                                                *)
(***************************************************************************)
\* the id under which the run knows the unit of buffer row i: its cell in the id
\* column, or "SRC-" and the row's index in a table without id column
UnitId(i) == IF HasIdCol(buffer_raw) THEN buffer_raw[i].id ELSE SourceId(i)

InLoop == pc \in {"helpall", "autostore", "huvudplock"}
\* allocate has returned its result
Returned == pc \in {"done", "reclassified", "refilled"}
LoopOver == pc = "promote" \/ Returned

\* the order line of orders_raw[i] survives the status-35 filter
LineSurvives(i) == order_status_col => 35 \notin ExtractNum(Strip(orders_raw[i].status))

\* the (OrderID, OrderRad) key the rows of orders_raw[i] carry
IsOfLine(row, i) == row.OrderID = "" /\ row.OrderRad = ToString(i - 1)

\* the loop has finished the iteration of orders_raw[i]
LineDone(i) ==
    \/ LoopOver
    \/ InLoop /\ \E j \in 1..(line - 1) : IsOfLine(orders[j], i)

\* positions in allocated_rows of the rows emitted for orders_raw[i]
AllocatedTo(i) == {k \in 1..Len(allocated_rows) : IsOfLine(allocated_rows[k], i)}

SumAllocated(i) ==
    SumSeq([k \in 1..Len(allocated_rows) |->
               IF k \in AllocatedTo(i) THEN allocated_rows[k].Antal ELSE 0])

\* the order line in work and its article
CurRow == orders[line]
CurArt == orders[line].Artikel

RECURSIVE NeedBefore(_, _, _)
\* the need remaining when pallet k of queue q is reached by a line requesting n0,
\* every pallet that is reached with need left and fits whole being consumed
NeedBefore(q, n0, k) ==
    IF k = 1 THEN n0
    ELSE LET nb == NeedBefore(q, n0, k - 1)
         IN IF nb > 0 /\ q[k - 1].qty <= nb THEN nb - q[k - 1].qty ELSE nb

\* pallet k of q is reached with need left
Examined(q, n0, k) == NeedBefore(q, n0, k) > 0
\* pallet k of q is consumed
Taken(q, n0, k) == Examined(q, n0, k) /\ q[k].qty <= NeedBefore(q, n0, k)

\* the near-miss records of orders_raw[i] naming pallet id as their source
NearMissOf(i, id) ==
    {k \in 1..Len(near_miss_rows) : IsOfLine(near_miss_rows[k], i) /\ near_miss_rows[k].PallID = id}

\* position in orders_raw of the order line in work
CurRaw == CHOOSE i \in 1..Len(orders_raw) : IsOfLine(CurRow, i)

(***************************************************************************)
(* C1. For every order line that survives the status-35 filter and asks    *)
(* for a quantity > 0, the quantities of the rows emitted for the line     *)
(* (HELPALL, AUTOSTORE, HUVUDPLOCK), before and after the promotion pass,  *)
(* add up to exactly the requested quantity.                               *)
(***************************************************************************)
C1_SumEqualsRequested ==
    \A i \in 1..Len(orders_raw) :
        (LineSurvives(i) /\ orders_raw[i].qty > 0 /\ LineDone(i)) =>
            /\ SumAllocated(i) = orders_raw[i].qty
            /\ \A k \in AllocatedTo(i) :
                  allocated_rows[k].Kalltyp \in {"HELPALL", "AUTOSTORE", "HUVUDPLOCK"}

\* a finished run with a line served from two sources, next to a status-35 line
C1_Witness ==
    /\ Returned
    /\ \E i \in 1..Len(orders_raw) : LineSurvives(i) /\ Cardinality(AllocatedTo(i)) >= 2
    /\ \E i \in 1..Len(orders_raw) : ~LineSurvives(i)

(***************************************************************************)
(* C2. Scenario A: one order line with need 10, one eligible pallet of     *)
(* quantity 9, no bins.  As claimed: exactly one HUVUDPLOCK row of         *)
(* quantity 10, no HELPALL row, no near-miss record.                       *)
(***************************************************************************)
ScenarioA ==
    /\ Len(orders_raw) = 1 /\ orders_raw[1].qty = 10
    /\ Len(buffer_raw) = 1 /\ buffer_raw[1].qty = 9
    /\ buffer_raw[1].artikel = orders_raw[1].artikel
    /\ ~IsAutostore(Strip(buffer_raw[1].loc))

C2_ScenarioA_AsClaimed ==
    (ScenarioA /\ Returned) =>
        /\ Len(allocated_rows) = 1
        /\ allocated_rows[1].Kalltyp = "HUVUDPLOCK" /\ allocated_rows[1].Antal = 10
        /\ near_miss_rows = <<>>

\* C2 as amended: the pallet of 9 is not larger than the need and is consumed whole:
\* one HELPALL row of quantity 9 from the pallet, then one HUVUDPLOCK row of quantity
\* 1; no near-miss record
C2_ScenarioA_Amended ==
    (ScenarioA /\ Returned) =>
        /\ Len(allocated_rows) = 2
        /\ allocated_rows[1].Kalltyp = "HELPALL" /\ allocated_rows[1].Antal = 9
        /\ allocated_rows[1].Zon = "H" /\ allocated_rows[1].Kalla = UnitId(1)
        /\ allocated_rows[2].Kalltyp = "HUVUDPLOCK" /\ allocated_rows[2].Antal = 1
        /\ allocated_rows[2].Zon = "A" /\ allocated_rows[2].Kalla = <<>>
        /\ near_miss_rows = <<>>
        /\ pallet_queues[orders_raw[1].artikel] = <<>>

C2_Witness == ScenarioA /\ Returned

(***************************************************************************)
(* C3. As claimed: the HELPALL scan of an order line ends at the first     *)
(* pallet larger than the remaining need, so the pallets the line consumes *)
(* are a prefix of the article's queue and the queue left behind is the    *)
(* rest of it.                                                             *)
(***************************************************************************)
C3_ConsumedIsPrefix ==
    pc = "autostore" =>
        \E n \in 0..Len(pq) :
            /\ pallet_queues[CurArt] = SubSeq(pq, n + 1, Len(pq))
            /\ \A k \in 1..Len(pq) : Taken(pq, CurRow.Antal, k) <=> k <= n

\* C3 as amended: a pallet larger than the remaining need is skipped and stays in
\* the queue at its place, and the scan goes on behind it while need is left: the
\* pallets consumed are exactly those not larger than the need remaining when they
\* are reached (not always a prefix), each giving one HELPALL row in queue order,
\* and the queue left behind is the others in their old order
C3_SkipsAndContinues ==
    pc = "autostore" =>
        LET kept == {k \in 1..Len(pq) : ~Taken(pq, CurRow.Antal, k)}
            took == SelectSeqOf(pq, (1..Len(pq)) \ kept)
            mine == SelectSeqOf(allocated_rows, AllocatedTo(CurRaw))
        IN /\ pallet_queues[CurArt] = SelectSeqOf(pq, kept)
           /\ Len(mine) = Len(took)
           /\ \A k \in 1..Len(took) :
                 mine[k].Kalltyp = "HELPALL" /\ mine[k].Kalla = took[k].source_id

\* a pallet is consumed while an older, larger pallet of the article stays behind
C3_Witness ==
    /\ pc = "autostore"
    /\ \E j, k \in 1..Len(pq) :
          j < k /\ ~Taken(pq, CurRow.Antal, j) /\ Taken(pq, CurRow.Antal, k)

(***************************************************************************)
(* C4. As claimed: once an order line has been processed, each of its      *)
(* near-miss records has mattered = true exactly if the line got an        *)
(* AUTOSTORE or HUVUDPLOCK row, whether or not it also consumed pallets.   *)
(***************************************************************************)
HasRowOfType(i, types) == \E k \in AllocatedTo(i) : allocated_rows[k].Kalltyp \in types

C4_MatteredIffFallback ==
    \A i \in 1..Len(orders_raw) : \A k \in 1..Len(near_miss_rows) :
        (LineDone(i) /\ IsOfLine(near_miss_rows[k], i)) =>
            /\ near_miss_rows[k].Galler \in {"True", "False"}
            /\ near_miss_rows[k].Galler = "True" <=> HasRowOfType(i, {"AUTOSTORE", "HUVUDPLOCK"})

(***************************************************************************)
(* C5. A pallet examined in the HELPALL stage gets a near-miss record      *)
(* exactly if its quantity is greater than the need remaining at that      *)
(* moment and (quantity - need) / need <= 0.15, 0.15 included; the record  *)
(* carries that need and quantity.  A pallet that is not examined, not     *)
(* larger than the need or more than 15 % larger gets none.                *)
(***************************************************************************)
C5_NearMissIff ==
    pc = "autostore" =>
        \A k \in 1..Len(pq) :
            LET nb == NeedBefore(pq, CurRow.Antal, k)
                recs == NearMissOf(CurRaw, pq[k].source_id)
                near == nb > 0 /\ pq[k].qty > nb /\ 100 * (pq[k].qty - nb) <= 15 * nb
            IN /\ Cardinality(recs) = (IF near THEN 1 ELSE 0)
               /\ \A r \in recs :
                     /\ near_miss_rows[r].Behov = nb
                     /\ near_miss_rows[r].Pall_kvantitet = pq[k].qty
                     /\ near_miss_rows[r].Skillnad = pq[k].qty - nb

\* the boundary: a pallet exactly 15 % over the need is recorded
C5_Witness ==
    /\ pc = "autostore"
    /\ \E k \in 1..Len(near_miss_rows) :
          near_miss_rows[k].Behov = 20 /\ near_miss_rows[k].Pall_kvantitet = 23

(***************************************************************************)
(* C6. Scenario B: one order line with need 10, one eligible pallet of     *)
(* quantity 11, no bins: exactly one near-miss record (difference 1,       *)
(* 10.0 %, mattered = true), one HUVUDPLOCK row of quantity 10, and the    *)
(* pallet stays in the queue.                                              *)
(***************************************************************************)
ScenarioB ==
    /\ Len(orders_raw) = 1 /\ orders_raw[1].qty = 10
    /\ Len(buffer_raw) = 1 /\ buffer_raw[1].qty = 11
    /\ buffer_raw[1].artikel = orders_raw[1].artikel
    /\ ~IsAutostore(Strip(buffer_raw[1].loc))

C6_ScenarioB ==
    (ScenarioB /\ Returned) =>
        /\ Len(near_miss_rows) = 1
        /\ near_miss_rows[1].Skillnad = 1
        /\ near_miss_rows[1].Procent = <<10, 1>>
        /\ near_miss_rows[1].Galler = "True"
        /\ near_miss_rows[1].PallID = UnitId(1)
        /\ Len(allocated_rows) = 1
        /\ allocated_rows[1].Kalltyp = "HUVUDPLOCK" /\ allocated_rows[1].Antal = 10
        /\ Len(pallet_queues[orders_raw[1].artikel]) = 1
        /\ pallet_queues[orders_raw[1].artikel][1].source_id = UnitId(1)
        /\ pallet_queues[orders_raw[1].artikel][1].qty = 11

C6_Witness == ScenarioB /\ Returned /\ near_miss_rows # <<>>

(***************************************************************************)
(* C7. Pallets are never split: every HELPALL row has the full original    *)
(* quantity of the buffer unit named as its source, and that pallet is no  *)
(* longer in any pallet queue.                                             *)
(***************************************************************************)
C7_PalletsNeverSplit ==
    \A k \in 1..Len(allocated_rows) :
        allocated_rows[k].Kalltyp = "HELPALL" =>
            /\ \E i \in 1..Len(buffer_raw) :
                  /\ UnitId(i) = allocated_rows[k].Kalla
                  /\ buffer_raw[i].qty = allocated_rows[k].Antal
                  /\ buffer_raw[i].artikel = allocated_rows[k].Artikel
            /\ \A a \in Articles : \A j \in 1..Len(pallet_queues[a]) :
                  pallet_queues[a][j].source_id # allocated_rows[k].Kalla

\* a line that took a pallet smaller than its need, named by its id cell
C7_Witness ==
    \E k \in 1..Len(allocated_rows) : \E i \in 1..Len(orders_raw) :
        /\ HasIdCol(buffer_raw)
        /\ allocated_rows[k].Kalltyp = "HELPALL"
        /\ IsOfLine(allocated_rows[k], i)
        /\ allocated_rows[k].Antal < orders_raw[i].qty

(***************************************************************************)
(* C8. The promotion pass: in the result, for every article with an        *)
(* AUTOSTORE row every row that is not HELPALL has type AUTOSTORE and zone *)
(* R (no HUVUDPLOCK row of it remains); the pass changes no quantity and   *)
(* no HELPALL row, and nothing but type and zone.                          *)
(***************************************************************************)
C8_PromotionPass ==
    [][pc = "promote" =>
        /\ Len(allocated_rows') = Len(allocated_rows)
        /\ \A k \in 1..Len(allocated_rows) :
              /\ allocated_rows'[k] =
                    [allocated_rows[k] EXCEPT !.Kalltyp = allocated_rows'[k].Kalltyp,
                                              !.Zon = allocated_rows'[k].Zon]
              /\ allocated_rows[k].Kalltyp = "HELPALL" => allocated_rows'[k] = allocated_rows[k]
              /\ (/\ allocated_rows'[k].Kalltyp # "HELPALL"
                  /\ \E j \in 1..Len(allocated_rows) :
                        /\ allocated_rows'[j].Artikel = allocated_rows'[k].Artikel
                        /\ allocated_rows'[j].Kalltyp = "AUTOSTORE")
                 => (allocated_rows'[k].Kalltyp = "AUTOSTORE" /\ allocated_rows'[k].Zon = "R")
    ]_vars

\* a result with a promoted fallback row: AUTOSTORE, zone R, no source
C8_Witness ==
    /\ Returned
    /\ \E k \in 1..Len(allocated_rows) :
          allocated_rows[k].Kalltyp = "AUTOSTORE" /\ allocated_rows[k].Kalla = <<>>

\* the main-pick refill rows of an article, and their summed shortfall per zone set
RefillRowsOf(art) == {k \in 1..Len(refill_hp) : refill_hp[k].Artikel = art}
BehovOf(art, zones) ==
    SumSeq([k \in 1..Len(refill_hp) |->
               IF refill_hp[k].Artikel = art /\ refill_hp[k].Zon \in zones
               THEN refill_hp[k].Behov ELSE 0])
\* the article's integer shortfall: main-pick demand minus pick-face stock, floored at 0
Shortfall(art) ==
    Max(0, Demand(result_df, art, {"HUVUDPLOCK", "SKRYMMANDE"}) - SaldoSum(saldo_norm, art))
\* Scenario D: demand 7 in zone A and 3 in zone S against a pick-face stock of 2
ScenarioD(art) ==
    /\ Demand(result_df, art, {"HUVUDPLOCK"}) = 7
    /\ Demand(result_df, art, {"SKRYMMANDE"}) = 3
    /\ SaldoSum(saldo_norm, art) = 2

\* C9: in the main-pick refill report the rows of an article are one per zone at
\* most, each with a shortfall of at least 1, and their shortfalls sum to exactly
\* the article's integer shortfall (no rows when it is 0); the zone-S share of an
\* article that also has zone-A demand is its proportional share rounded on its
\* own (within one half of it), so the remainder is with the first group, zone A;
\* demand 7 (A) + 3 (S) with stock 2 gives A = 6 and S = 2.
C9_RefillSumsToShortfall ==
    pc = "refilled" =>
      \A art \in Articles :
        LET total == Demand(result_df, art, {"HUVUDPLOCK", "SKRYMMANDE"})
            demand_s == Demand(result_df, art, {"SKRYMMANDE"})
            has_a == \E k \in 1..Len(result_df) :
                         result_df[k].Artikel = art /\ result_df[k].Kalltyp = "HUVUDPLOCK"
            err == BehovOf(art, {"S"}) * total - demand_s * Shortfall(art)
        IN /\ BehovOf(art, {"A", "S"}) = Shortfall(art)
           /\ \A k \in RefillRowsOf(art) : refill_hp[k].Behov >= 1 /\ refill_hp[k].Zon \in {"A", "S"}
           /\ \A k, m \in RefillRowsOf(art) : refill_hp[k].Zon = refill_hp[m].Zon => k = m
           /\ has_a => 2 * err <= total /\ 0 - 2 * err <= total
           /\ ScenarioD(art) => BehovOf(art, {"A"}) = 6 /\ BehovOf(art, {"S"}) = 2

\* Scenario D has been reported for article A1: rows A = 6 and S = 2
C9_Witness ==
    /\ pc = "refilled"
    /\ ScenarioD("A1")
    /\ \E k, m \in RefillRowsOf("A1") :
          /\ refill_hp[k].Zon = "A" /\ refill_hp[k].Behov = 6
          /\ refill_hp[m].Zon = "S" /\ refill_hp[m].Behov = 2

\* the pick-face cells of the article that hold a location, blanks around it aside
PickFaceCells(art) ==
    {i \in 1..Len(saldo_norm) :
        saldo_norm[i].Artikel = art /\ Strip(saldo_norm[i].Plockplats) # <<>>}
\* the article's pick-face location, the first one recorded for it, is a bulky
\* one: it starts with SK or contains BRAND, in any letter case
BulkyPickFace(art) ==
    \E i \in PickFaceCells(art) :
       /\ \A j \in PickFaceCells(art) : i <= j
       /\ LET place == StrUpper(Strip(saldo_norm[i].Plockplats))
          IN StartsWith(place, SK_MARK) \/ Contains(place, BRAND_MARK)
\* the line is one the reclassifier is to rewrite
ToReclassify(row) ==
    /\ row.Kalltyp \in {"HUVUDPLOCK", "AUTOSTORE"}
    /\ row.Kalla = <<>>
    /\ BulkyPickFace(row.Artikel)
Reclassified == pc \in {"reclassified", "refilled"}

\* C10: the reclassifier keeps the lines and their order; a line is changed iff
\* its type is HUVUDPLOCK or AUTOSTORE, its source unit id is empty and its
\* article's pick-face location (the first non-empty one) starts with SK or
\* contains BRAND in any letter case; a changed line differs from the old one
\* in exactly type = SKRYMMANDE and zone = S; hence with no pick-face location,
\* or none for the article, the result equals the input.
C10_ReclassifyIff ==
    Reclassified =>
      /\ Len(result_df) = Len(allocated_rows)
      /\ \A k \in 1..Len(allocated_rows) :
            /\ (result_df[k] # allocated_rows[k]) <=> ToReclassify(allocated_rows[k])
            /\ ToReclassify(allocated_rows[k]) =>
                  result_df[k] = [allocated_rows[k] EXCEPT !.Kalltyp = "SKRYMMANDE", !.Zon = "S"]
      /\ (\A art \in Articles : PickFaceCells(art) = {}) => result_df = allocated_rows

\* the ids named as source by the HELPALL lines of the result
HelpallSources ==
    {result_df[k].Kalla : k \in {j \in 1..Len(result_df) : result_df[j].Kalltyp = "HELPALL"}}
\* the buffer units of an article the refill may count: refill status, not a HELPALL source
FreeUnits(art) ==
    {i \in 1..Len(buffer_raw) :
        /\ buffer_raw[i].artikel = art
        /\ buff_status_col => ExtractNum(Strip(buffer_raw[i].status)) \cap REFILL_BUFFER_STATUSES # {}
        /\ UnitId(i) \notin HelpallSources}
FreeQty(art) ==
    SumSeq([i \in 1..Len(buffer_raw) |-> IF i \in FreeUnits(art) THEN buffer_raw[i].qty ELSE 0])
\* the rows of both refill reports
AllRefillRows == refill_hp \o refill_as

\* C11: no buffer unit named as source by a HELPALL line is counted by the refill:
\* for every refill row the sufficiency flag is "Ja" exactly if the units of the
\* article that are not HELPALL sources hold the shortfall, the estimated unit
\* count never exceeds the number of those units, and it is that number when they
\* do not hold the shortfall.
C11_HelpallUnitsNotCounted ==
    pc = "refilled" =>
      \A k \in 1..Len(AllRefillRows) :
        LET r == AllRefillRows[k]
        IN /\ r.FIFO <= Cardinality(FreeUnits(r.Artikel))
           /\ r.Tillrackligt = "Ja" <=> FreeQty(r.Artikel) >= r.Behov
           /\ FreeQty(r.Artikel) < r.Behov => r.FIFO = Cardinality(FreeUnits(r.Artikel))

\* a refill row of an article one of whose pallets, named by its id cell, went to
\* a HELPALL line, and which that pallet would have covered
C11_Witness ==
    /\ pc = "refilled"
    /\ HasIdCol(buffer_raw)
    /\ \E k \in 1..Len(AllRefillRows) : \E i \in 1..Len(buffer_raw) :
          /\ buffer_raw[i].artikel = AllRefillRows[k].Artikel
          /\ UnitId(i) \in HelpallSources
          /\ buffer_raw[i].qty >= AllRefillRows[k].Behov
          /\ AllRefillRows[k].Tillrackligt = "Nej"

\* the demand of an article in AUTOSTORE lines without source unit
PromotedDemand(art) ==
    SumSeq([k \in 1..Len(result_df) |->
               IF /\ result_df[k].Artikel = art /\ result_df[k].Kalltyp = "AUTOSTORE"
                  /\ result_df[k].Kalla = <<>>
               THEN result_df[k].Antal ELSE 0])

\* C12: in the output of allocate the AUTOSTORE lines with an empty source id are
\* exactly the lines the promotion pass rewrote, and an AUTOSTORE line with a
\* source id names a bin of the buffer; the AutoStore refill report has exactly
\* one row for each article whose demand in AUTOSTORE lines without source
\* exceeds its pick-face stock, with shortfall = that demand - stock, so that
\* bin-sourced lines add nothing to it.
C12_AutoStoreReportFromPromoted ==
    [][/\ pc = "promote" =>
            \A k \in 1..Len(allocated_rows) :
               /\ (allocated_rows'[k].Kalltyp = "AUTOSTORE" /\ allocated_rows'[k].Kalla = <<>>)
                     <=> allocated_rows'[k] # allocated_rows[k]
               /\ (allocated_rows'[k].Kalltyp = "AUTOSTORE" /\ allocated_rows'[k].Kalla # <<>>)
                     => \E i \in 1..Len(buffer_raw) :
                           /\ UnitId(i) = allocated_rows'[k].Kalla
                           /\ IsAutostore(Strip(buffer_raw[i].loc))
       /\ pc' = "refilled" =>
            \A art \in Articles :
               LET short == Max(0, PromotedDemand(art) - SaldoSum(saldo_norm, art))
                   mine == {k \in 1..Len(refill_as') : refill_as'[k].Artikel = art}
               IN /\ Cardinality(mine) = (IF short > 0 THEN 1 ELSE 0)
                  /\ \A k \in mine : refill_as'[k].Behov = short
    ]_vars

\* C13 as claimed: a result without rows is still a table with its full column
\* set: the allocated lines and the near-miss records once allocate has returned,
\* the two refill reports once calculate_refill has.
C13_EmptyTablesKeepColumns ==
    /\ Returned =>
          /\ columns.allocated = ordered_cols(order_status_col)
          /\ columns.near_miss = NEAR_MISS_KEYS
    /\ pc = "refilled" =>
          /\ columns.refill_hp = REFILL_HP_KEYS
          /\ columns.refill_as = REFILL_AS_KEYS

\* C13 as amended: only the table of allocated lines keeps its full column set
\* (the columns of the order table and the four added ones) when it has no rows;
\* the near-miss table and the two refill reports are tables without any column
\* when they have no rows, and have their full column set otherwise.
C13_OnlyAllocatedKeepsColumns ==
    /\ Returned =>
          /\ columns.allocated = ordered_cols(order_status_col)
          /\ columns.near_miss = (IF near_miss_rows = <<>> THEN {} ELSE NEAR_MISS_KEYS)
    /\ pc = "refilled" =>
          /\ columns.refill_hp = (IF refill_hp = <<>> THEN {} ELSE REFILL_HP_KEYS)
          /\ columns.refill_as = (IF refill_as = <<>> THEN {} ELSE REFILL_AS_KEYS)

\* a run whose four results are all without rows
C13_Witness ==
    /\ pc = "refilled"
    /\ orders_raw # <<>>
    /\ allocated_rows = <<>> /\ near_miss_rows = <<>>
    /\ refill_hp = <<>> /\ refill_as = <<>>

\* C14: the column assignments of allocate (allocation.py 34-37, 53-57), of the
\* reclassifier (refill.py 47-50) and of calculate_refill (refill.py 72-75) go to
\* working copies: no step changes a table it was given (orders, buffer, pick-face
\* stock, backlog; the allocation result once allocate has returned it, the
\* reclassified result once calculate_refill has it). A second run on the same
\* tables returns the allocated lines and near-miss records of the first: what the
\* first run consumed (pallets, bin quantities) and emitted is not there for the
\* second.
C14_InputsKeptRunsIndependent ==
    [][/\ InputVars' = InputVars
       /\ pc \in {"done", "reclassified"} => allocated_rows' = allocated_rows
       /\ pc = "reclassified" => result_df' = result_df
       /\ (pc' \in {"done", "reclassified", "refilled"} /\ run' > 1) =>
             <<allocated_rows', near_miss_rows'>> = prev_result'
    ]_vars

\* the second run is over: it took from buffer units, the reclassifier rewrote a
\* line of its result, and the first run had returned the same
C14_Witness ==
    /\ run = 2 /\ pc = "refilled"
    /\ \E k \in 1..Len(allocated_rows) : allocated_rows[k].Kalla # <<>>
    /\ result_df # allocated_rows
    /\ prev_result = <<allocated_rows, near_miss_rows>>

\* the rows of table t that belong to article x
RestrictTo(t, x) == SelectSeqOf(t, {i \in 1..Len(t) : t[i].artikel = x})
\* the position in buffer_raw of the j-th buffer row of article x
OrigIndex(x, j) ==
    CHOOSE i \in 1..Len(buffer_raw) :
        /\ buffer_raw[i].artikel = x
        /\ Cardinality({m \in 1..i : buffer_raw[m].artikel = x}) = j
\* the position in table b of the unit with source id sid, 0 for no source
UnitOf(b, sid) ==
    IF sid = <<>> THEN 0 ELSE CHOOSE i \in 1..Len(b) : NormBuffer(b)[i].source_id = sid
\* what the run on all articles gave for article x: quantity, type, zone and
\* source unit (its row in buffer_raw) of each line, in order
LinesTogether(x) ==
    LET mine == SelectSeqOf(allocated_rows,
                            {k \in 1..Len(allocated_rows) : allocated_rows[k].Artikel = x})
    IN [k \in 1..Len(mine) |->
           <<mine[k].Antal, mine[k].Kalltyp, mine[k].Zon, UnitOf(buffer_raw, mine[k].Kalla)>>]
\* the same for allocate on the order lines and buffer units of article x alone
LinesAlone(x) ==
    LET b == RestrictTo(buffer_raw, x)
        mine == allocate(RestrictTo(orders_raw, x), b, order_status_col, buff_status_col).rows
    IN [k \in 1..Len(mine) |->
           <<mine[k].Antal, mine[k].Kalltyp, mine[k].Zon,
             IF mine[k].Kalla = <<>> THEN 0 ELSE OrigIndex(x, UnitOf(b, mine[k].Kalla))>>]

\* C15: allocation is article-scoped: the lines of an article (quantity, type,
\* zone, source unit) are the same whether allocate is given all order lines and
\* buffer units or only those of the article.
C15_ArticleScoped ==
    Returned => \A x \in Articles : LinesTogether(x) = LinesAlone(x)

\* FIFO order of the buffer rows i and j: received time ascending, no received
\* time last, source id as tiebreak
FifoBefore(i, j) ==
    LET a == buffer_raw[i]
        b == buffer_raw[j]
    IN \/ a.received # NaT /\ (b.received = NaT \/ a.received < b.received)
       \/ a.received = b.received /\ TextLess(UnitId(i), UnitId(j))
\* the queue q is in FIFO order
InFifoOrder(q) ==
    \A i \in 1..Len(q), j \in 1..Len(q) :
        i < j => FifoBefore(UnitOf(buffer_raw, q[i].source_id), UnitOf(buffer_raw, q[j].source_id))
\* the lines r and s were taken from units of the same kind for the same order line
SameLineAndKind(r, s) ==
    /\ r.Kalla # <<>> /\ s.Kalla # <<>>
    /\ r.OrderRad = s.OrderRad
    /\ IsAutostore(r.Kallplats) = IsAutostore(s.Kallplats)

\* C16: at every point of the run the pallet queue and the bin queue of every
\* article are in FIFO order (received time ascending, no time last, source id
\* as tiebreak), so skipped and partially consumed units keep their place; a bin
\* of which part was taken is the head of its queue; and the lines one order line
\* got from pallets, and those it got from bins, name their units in FIFO order.
C16_FifoOrderKept ==
    /\ \A a \in Articles : InFifoOrder(pallet_queues[a]) /\ InFifoOrder(bin_queues[a])
    /\ \A a \in Articles : \A k \in 1..Len(bin_queues[a]) :
          bin_queues[a][k].qty < buffer_raw[UnitOf(buffer_raw, bin_queues[a][k].source_id)].qty
             => k = 1
    /\ \A i \in 1..Len(allocated_rows), j \in 1..Len(allocated_rows) :
          i < j /\ SameLineAndKind(allocated_rows[i], allocated_rows[j])
             => FifoBefore(UnitOf(buffer_raw, allocated_rows[i].Kalla),
                           UnitOf(buffer_raw, allocated_rows[j].Kalla))
\* the second order line starts with a partly consumed bin at the head of a
\* queue whose order is not the order of the buffer rows
C16_Witness ==
    /\ pc = "helpall" /\ orders[line].OrderRad = "1"
    /\ LET q == bin_queues["A1"]
       IN /\ Len(q) >= 2
          /\ q[1].qty < buffer_raw[UnitOf(buffer_raw, q[1].source_id)].qty
          /\ UnitOf(buffer_raw, q[1].source_id) > UnitOf(buffer_raw, q[2].source_id)
          /\ q[2].received = NaT

\* the lines taken from buffer row i, and their total quantity
LinesFrom(i) == SelectSeqOf(allocated_rows,
                            {k \in 1..Len(allocated_rows) : allocated_rows[k].Kalla = UnitId(i)})
UsedOf(i) == SumSeq([k \in 1..Len(LinesFrom(i)) |-> LinesFrom(i)[k].Antal])
\* the places of buffer row i in the bin queue of its article
QueuedAt(i) ==
    {k \in 1..Len(bin_queues[buffer_raw[i].artikel]) :
        bin_queues[buffer_raw[i].artikel][k].source_id = UnitId(i)}
\* once the queues are built: a bin is queued at most once, with a positive
\* quantity that is its original quantity less what was taken from it; a bin that
\* is not queued has given all of it
BinsKept ==
    pc # "start" =>
      \A i \in 1..Len(buffer_raw) : IsAutostore(Strip(buffer_raw[i].loc)) =>
        /\ Cardinality(QueuedAt(i)) <= 1
        /\ UsedOf(i) <= buffer_raw[i].qty
        /\ \A k \in QueuedAt(i) :
              /\ bin_queues[buffer_raw[i].artikel][k].qty > 0
              /\ bin_queues[buffer_raw[i].artikel][k].qty = buffer_raw[i].qty - UsedOf(i)
        /\ QueuedAt(i) = {} => UsedOf(i) = buffer_raw[i].qty
\* the AUTOSTORE stage of the current line pops the bins of the queue while need
\* is left and takes min(bin quantity, remaining need) from each
TakesMin ==
    pc = "autostore" /\ pc' = "huvudplock" =>
      LET q == bin_queues[CurArt]
          new == SubSeq(allocated_rows', Len(allocated_rows) + 1, Len(allocated_rows'))
          Before(k) == SumSeq([j \in 1..(k - 1) |-> q[j].qty])
          popped == {k \in 1..Len(q) : Before(k) < need}
      IN /\ Len(new) = Cardinality(popped)
         /\ \A k \in popped :
               /\ new[k].Antal = Min(q[k].qty, need - Before(k))
               /\ new[k].Kalla = q[k].source_id
               /\ new[k].Kalltyp = "AUTOSTORE"

\* C17: in the AUTOSTORE stage each popped bin gives min(bin quantity, remaining
\* need); no bin ever has a negative or zero queued quantity, the AUTOSTORE
\* quantities taken from a bin never exceed its original quantity, a bin with
\* residual quantity stays queued with exactly that residual, and an emptied bin
\* is not queued again.
C17_BinsConserved == [][TakesMin /\ BinsKept']_vars
\* one bin has served two order lines and is empty
C17_Witness ==
    /\ Returned
    /\ \E i \in 1..Len(buffer_raw) :
          /\ IsAutostore(Strip(buffer_raw[i].loc))
          /\ \E r, s \in 1..Len(LinesFrom(i)) : LinesFrom(i)[r].OrderRad # LinesFrom(i)[s].OrderRad
          /\ UsedOf(i) = buffer_raw[i].qty
          /\ QueuedAt(i) = {}

\* the source ids that lines and near-miss records name
NamedSources ==
    ({allocated_rows[k].Kalla : k \in 1..Len(allocated_rows)} \ {<<>>})
      \cup {near_miss_rows[k].PallID : k \in 1..Len(near_miss_rows)}
\* the location is blocked: without the white space around it and in upper case
\* it starts with AA or is one of the four blocked names
BlockedLocation(loc) ==
    LET place == StrUpper(Strip(loc))
    IN \/ StartsWith(place, <<"A", "A">>)
       \/ place \in { <<"T", "R", "A", "N", "S", "I", "T">>,
                      <<"T", "R", "A", "N", "S", "I", "T", "_", "E", "R", "R", "O", "R">>,
                      <<"M", "I", "S", "S", "I", "N", "G">>, <<"U", "T", "2">> }
\* the status numeral of the text (the number read from its first run of digits,
\* none when the run has a digit that is not one of 0-9) is one of 29, 30, 32
StagedStatus(status) == \E n \in {29, 30, 32} : ExtractNum(Strip(status)) = {n}

\* C18: no line and no near-miss record names as source a buffer unit whose
\* status numeral is outside {29, 30, 32} (when the buffer has a status column; a
\* text without digit is outside), whose location is blocked, or whose quantity
\* is not positive.
C18_OnlyEligibleSources ==
    \A sid \in NamedSources :
        LET u == buffer_raw[UnitOf(buffer_raw, sid)]
        IN /\ buff_status_col => StagedStatus(u.status)
           /\ ~BlockedLocation(u.loc)
           /\ u.qty > 0
\* the first unit would have served the line but has a status text without
\* digit; the line is served by the second unit
C18_Witness ==
    /\ Returned /\ buff_status_col /\ Len(buffer_raw) = 2
    /\ buffer_raw[1].status = <<"x">> /\ buffer_raw[1].qty = FilterNeed
    /\ buffer_raw[1].loc = LocPallet
    /\ \E k \in 1..Len(allocated_rows) : allocated_rows[k].Kalla = UnitId(2)

\* order line i is dead: its status numeral is 35 or it requests nothing
DeadLine(i) ==
    \/ order_status_col /\ ExtractNum(Strip(orders_raw[i].status)) = {35}
    \/ orders_raw[i].qty <= 0
\* the order table without its dead lines
LiveOrders == SelectSeqOf(orders_raw, {i \in 1..Len(orders_raw) : ~DeadLine(i)})
\* lines and records without the row number of their order line, which shifts
\* when lines are left out
WithoutRad(rows) == [k \in 1..Len(rows) |-> [rows[k] EXCEPT !.OrderRad = ""]]

\* C19: an order line with status numeral 35 or with a requested quantity <= 0
\* has no effect: no line and no near-miss record belongs to it, and the lines,
\* the near-miss records and the final pallet and bin queues are those of
\* allocate on the order table without the dead lines.
C19_DeadLinesNoEffect ==
    Returned =>
      LET absent == allocate(LiveOrders, buffer_raw, order_status_col, buff_status_col)
      IN /\ \A i \in 1..Len(orders_raw) : DeadLine(i) =>
               /\ \A k \in 1..Len(allocated_rows) : allocated_rows[k].OrderRad # ToString(i - 1)
               /\ \A k \in 1..Len(near_miss_rows) : near_miss_rows[k].OrderRad # ToString(i - 1)
         /\ WithoutRad(allocated_rows) = WithoutRad(absent.rows)
         /\ WithoutRad(near_miss_rows) = WithoutRad(absent.near)
         /\ pallet_queues = absent.pallet_queues
         /\ bin_queues = absent.bin_queues
\* a status-35 line that a pallet would fit and a line of quantity <= 0 come
\* before a live line, and the live line gets the pallet
C19_Witness ==
    /\ Returned /\ order_status_col /\ Len(orders_raw) = 3
    /\ orders_raw[1].status = Status35 /\ orders_raw[1].qty > 0
    /\ orders_raw[2].status = Status20 /\ orders_raw[2].qty <= 0
    /\ ~DeadLine(3)
    /\ \E k \in 1..Len(allocated_rows) :
          /\ allocated_rows[k].Kalltyp = "HELPALL"
          /\ allocated_rows[k].Antal = orders_raw[1].qty

\* buffer row i comes before buffer row j in received-time order: earlier
\* received time, rows without one last, rows of the table in their order otherwise
ReceivedBefore(i, j) ==
    \/ buffer_raw[i].received # NaT
         /\ (buffer_raw[j].received = NaT \/ buffer_raw[i].received < buffer_raw[j].received)
    \/ buffer_raw[i].received = buffer_raw[j].received /\ i < j
\* the total quantity of the first k units of the article's refill snapshot
FirstUnitsQty(art, k) ==
    SumSeq([i \in 1..Len(buffer_raw) |->
               IF i \in FreeUnits(art)
                  /\ Cardinality({j \in FreeUnits(art) : ReceivedBefore(j, i)}) < k
               THEN buffer_raw[i].qty ELSE 0])
\* the number of units that covers the shortfall behov of the article: the
\* smallest sufficient count, all units when no count suffices
UnitsToCover(art, behov) ==
    LET n == Cardinality(FreeUnits(art))
        enough == {k \in 1..n : FirstUnitsQty(art, k) >= behov}
    IN IF enough = {} THEN n ELSE CHOOSE k \in enough : \A m \in enough : k <= m

\* C20: the estimated unit count of every refill row is the smallest k such that
\* the first k units of the article's refill snapshot, in received-time order,
\* hold at least the row's shortfall, or the number of all the article's snapshot
\* units when they do not suffice; every row counts from the first unit, whatever
\* the other rows of the article need.
C20_FifoEstimate ==
    pc = "refilled" =>
      \A k \in 1..Len(AllRefillRows) :
          AllRefillRows[k].FIFO = UnitsToCover(AllRefillRows[k].Artikel, AllRefillRows[k].Behov)
\* article A1 has a zone A row that needs both its units and a zone S row that
\* the first unit in received-time order covers, which is the second buffer row
C20_Witness ==
    /\ pc = "refilled"
    /\ \E k, m \in RefillRowsOf("A1") :
          /\ refill_hp[k].Zon = "A" /\ refill_hp[k].FIFO = 2
          /\ refill_hp[m].Zon = "S" /\ refill_hp[m].FIFO = 1
          /\ refill_hp[m].Behov > buffer_raw[1].qty
          /\ refill_hp[m].Behov <= buffer_raw[2].qty

\* C21: the sufficiency flag of every refill row is "Ja" exactly when the total
\* quantity of the article's refill snapshot (status numeral 29 or 30, units used
\* by HELPALL lines removed) is at least the row's shortfall, and "Nej"
\* otherwise; every row has a shortfall of at least 1.
C21_SufficiencyFlag ==
    pc = "refilled" =>
      \A k \in 1..Len(AllRefillRows) :
        /\ AllRefillRows[k].Behov >= 1
        /\ AllRefillRows[k].Tillrackligt =
              (IF FreeQty(AllRefillRows[k].Artikel) >= AllRefillRows[k].Behov THEN "Ja" ELSE "Nej")
\* the only unit has status numeral 32 and would cover the shortfall, which the
\* refill reports as not covered
C21_Witness ==
    /\ pc = "refilled" /\ buff_status_col /\ Len(buffer_raw) = 1
    /\ ExtractNum(Strip(buffer_raw[1].status)) = {32}
    /\ \E k \in 1..Len(AllRefillRows) :
          /\ buffer_raw[1].qty >= AllRefillRows[k].Behov
          /\ AllRefillRows[k].Tillrackligt = "Nej"

\* the line was taken from a bin
BinSourced(row) == row.Kalltyp = "AUTOSTORE" /\ row.Kalla # <<>>
\* in the list rows a line without source unit (a fallback line) stands before a
\* bin-sourced line of the same article, which an order line processed later got
LookAheadIn(rows) ==
    \E i \in 1..Len(rows), j \in 1..Len(rows) :
        /\ i < j
        /\ rows[i].Artikel = rows[j].Artikel
        /\ rows[i].Kalla = <<>>
        /\ BinSourced(rows[j])

\* C22 as stated: among the runs on the order and buffer tables of Spec there is
\* one in which a fallback line of an earlier order line is rewritten to
\* AUTOSTORE / zone R because a later order line of the article got an AUTOSTORE
\* allocation.
C22_LookAheadHappens ==
    \E o \in TablesUpTo(OrderRows, MaxDemand), b \in TablesUpTo(BufferRows, MaxStock) :
        LET rows == allocate(o, b, order_status_col, buff_status_col).rows
        IN /\ LookAheadIn(rows)
           /\ \E i \in 1..Len(rows) : rows[i].Kalla = <<>> /\ rows[i].Kalltyp = "AUTOSTORE"

\* C22 amended: the promotion pass has no look-ahead effect.  A fallback line is
\* emitted only when the bin queue of its article is empty, so no bin-sourced
\* AUTOSTORE line of the article follows it; every fallback line the promotion
\* pass rewrote to AUTOSTORE / zone R comes after a bin-sourced AUTOSTORE line of
\* its article, emitted for the same or an earlier order line.
C22_NoLookAhead ==
    /\ \A k \in 1..Len(allocated_rows) :
          allocated_rows[k].Kalla = <<>> => bin_queues[allocated_rows[k].Artikel] = <<>>
    /\ ~LookAheadIn(allocated_rows)
    /\ Returned =>
         \A i \in 1..Len(allocated_rows) :
            allocated_rows[i].Kalla = <<>> /\ allocated_rows[i].Kalltyp = "AUTOSTORE" =>
               \E j \in 1..(i - 1) :
                  /\ BinSourced(allocated_rows[j])
                  /\ allocated_rows[j].Artikel = allocated_rows[i].Artikel
\* a fallback line was rewritten whose article got its bin-sourced line for an
\* earlier order line
C22_Witness ==
    /\ Returned
    /\ \E i \in 1..Len(allocated_rows), j \in 1..Len(allocated_rows) :
          /\ j < i
          /\ allocated_rows[i].Kalla = <<>> /\ allocated_rows[i].Kalltyp = "AUTOSTORE"
          /\ allocated_rows[i].Zon = "R"
          /\ BinSourced(allocated_rows[j])
          /\ allocated_rows[j].Artikel = allocated_rows[i].Artikel
          /\ allocated_rows[j].OrderRad # allocated_rows[i].OrderRad

\* buffer row i is stock the allocation accepts: staged status (when the buffer
\* has a status column), location not blocked, positive quantity
EligibleUnit(i) ==
    /\ buff_status_col => StagedStatus(buffer_raw[i].status)
    /\ ~BlockedLocation(buffer_raw[i].loc)
    /\ buffer_raw[i].qty > 0
\* the initial eligible quantity of the article in pallets (bins = FALSE) or bins
InitialQty(art, bins) ==
    SumSeq([i \in 1..Len(buffer_raw) |->
               IF /\ buffer_raw[i].artikel = art /\ EligibleUnit(i)
                  /\ IsAutostore(Strip(buffer_raw[i].loc)) = bins
               THEN buffer_raw[i].qty ELSE 0])
\* the quantity waiting in a queue
QueueQty(q) == SumSeq([k \in 1..Len(q) |-> q[k].qty])
\* the quantity of the article's HELPALL lines and of its bin-sourced AUTOSTORE lines
HelpallQty(art) ==
    SumSeq([k \in 1..Len(allocated_rows) |->
               IF allocated_rows[k].Artikel = art /\ allocated_rows[k].Kalltyp = "HELPALL"
               THEN allocated_rows[k].Antal ELSE 0])
BinSourcedQty(art) ==
    SumSeq([k \in 1..Len(allocated_rows) |->
               IF allocated_rows[k].Artikel = art /\ BinSourced(allocated_rows[k])
               THEN allocated_rows[k].Antal ELSE 0])

\* C23: once the queues are built, for every article the quantity in its pallet
\* queue plus the quantity of its HELPALL lines is its initial eligible pallet
\* quantity, and the quantity in its bin queue plus the quantity of its
\* bin-sourced AUTOSTORE lines is its initial eligible bin quantity; no pallet
\* is the source of two HELPALL lines.
C23_StockConserved ==
    pc # "start" =>
      /\ \A art \in Articles :
            /\ QueueQty(pallet_queues[art]) + HelpallQty(art) = InitialQty(art, FALSE)
            /\ QueueQty(bin_queues[art]) + BinSourcedQty(art) = InitialQty(art, TRUE)
      /\ \A i \in 1..Len(allocated_rows), j \in 1..Len(allocated_rows) :
            /\ allocated_rows[i].Kalltyp = "HELPALL" /\ allocated_rows[j].Kalltyp = "HELPALL"
            /\ allocated_rows[i].Kalla = allocated_rows[j].Kalla
            => i = j
\* of an article one pallet went to a HELPALL line and another is still queued
\* after a second order line of the article was processed
C23_Witness ==
    /\ Returned
    /\ \E art \in Articles :
          /\ HelpallQty(art) > 0
          /\ pallet_queues[art] # <<>>
          /\ \E i \in 1..Len(orders), j \in 1..Len(orders) :
                i # j /\ orders[i].Artikel = art /\ orders[j].Artikel = art

\* C24: when an order line has left the HELPALL stage with need left, every
\* pallet still in the pallet queue of its article is larger than that need: no
\* pallet that would fit whole is left unused.
C24_NoFittingPalletLeft ==
    pc = "autostore" /\ need > 0 =>
      \A k \in 1..Len(pallet_queues[CurArt]) : pallet_queues[CurArt][k].qty > need
\* the line skipped the first pallet, took the second, and leaves the stage with
\* need left and the first pallet still queued
C24_Witness ==
    /\ pc = "autostore" /\ need > 0 /\ any_helpall
    /\ Len(pq) = 2 /\ pq[1].qty > pq[2].qty
    /\ Len(pallet_queues[CurArt]) = 1
    /\ pallet_queues[CurArt][1].source_id = pq[1].source_id

\* type, zone and source of the line fit together
ConsistentTriple(row) ==
    \/ row.Kalltyp = "HELPALL" /\ row.Zon = "H" /\ row.Kalla # <<>>
    \/ row.Kalltyp = "AUTOSTORE" /\ row.Zon = "R"
    \/ row.Kalltyp = "HUVUDPLOCK" /\ row.Zon = "A" /\ row.Kalla = <<>>
    \/ row.Kalltyp = "SKRYMMANDE" /\ row.Zon = "S" /\ row.Kalla = <<>>

\* C25: every line, as emitted, after the promotion pass and after the zone
\* reclassifier, is HELPALL / H with a source id, AUTOSTORE / R, HUVUDPLOCK / A
\* without source id or SKRYMMANDE / S without source id; lines with a source id
\* are HELPALL lines or AUTOSTORE lines only.
C25_ConsistentTriples ==
    /\ \A k \in 1..Len(allocated_rows) :
          /\ ConsistentTriple(allocated_rows[k])
          /\ allocated_rows[k].Kalltyp # "SKRYMMANDE"
    /\ \A k \in 1..Len(result_df) : ConsistentTriple(result_df[k])
\* the article has a line of the type in the reclassified result
HasType(art, t) ==
    \E k \in 1..Len(result_df) : result_df[k].Artikel = art /\ result_df[k].Kalltyp = t

\* C26: in the pipeline allocate, zone reclassifier, calculate_refill no article
\* has both HUVUDPLOCK (zone A) and SKRYMMANDE (zone S) lines, the main-pick
\* report has at most one row per article, and that row carries the article's
\* whole shortfall.
C26_SingleZonePerArticle ==
    /\ Reclassified =>
         \A art \in Articles : ~(HasType(art, "HUVUDPLOCK") /\ HasType(art, "SKRYMMANDE"))
    /\ pc = "refilled" =>
         \A art \in Articles :
            /\ Cardinality(RefillRowsOf(art)) <= 1
            /\ \A k \in RefillRowsOf(art) : refill_hp[k].Behov = Shortfall(art)
\* two order lines of an article with a bulky pick face fell back; both lines
\* are SKRYMMANDE and the report has one zone S row for the two
C26_Witness ==
    /\ pc = "refilled"
    /\ \E i \in 1..Len(result_df), j \in 1..Len(result_df) :
          /\ i # j
          /\ result_df[i].Kalltyp = "SKRYMMANDE" /\ result_df[j].Kalltyp = "SKRYMMANDE"
          /\ result_df[i].Artikel = result_df[j].Artikel
          /\ \E k \in RefillRowsOf(result_df[i].Artikel) :
                /\ refill_hp[k].Zon = "S"
                /\ refill_hp[k].Behov >= result_df[i].Antal + result_df[j].Antal

\* the rows of the auto-store refill report for the article
AutoStoreRowsOf(art) == {k \in 1..Len(refill_as) : refill_as[k].Artikel = art}
\* the article has an AUTOSTORE line without source unit in the reclassified result
HasPromoted(art) ==
    \E k \in 1..Len(result_df) :
        /\ result_df[k].Artikel = art
        /\ result_df[k].Kalltyp = "AUTOSTORE" /\ result_df[k].Kalla = <<>>

\* C27: in the pipeline allocate, zone reclassifier, calculate_refill no article
\* is in both refill reports: after the reclassifier the lines without source
\* unit of an article are either main-pick lines (HUVUDPLOCK, SKRYMMANDE) or
\* AUTOSTORE lines, never both, so its pick-face stock is subtracted in at most
\* one report.
C27_ReportsDisjoint ==
    /\ Reclassified =>
         \A art \in Articles :
            ~(HasPromoted(art) /\ (HasType(art, "HUVUDPLOCK") \/ HasType(art, "SKRYMMANDE")))
    /\ pc = "refilled" =>
         \A art \in Articles : RefillRowsOf(art) = {} \/ AutoStoreRowsOf(art) = {}
\* an article whose fallback line was promoted and not reclassified is in the
\* auto-store report and not in the main-pick report
C27_Witness ==
    /\ pc = "refilled"
    /\ \E art \in Articles :
          /\ \E k \in 1..Len(allocated_rows) :
                /\ allocated_rows[k].Artikel = art
                /\ allocated_rows[k].Kalltyp = "AUTOSTORE" /\ allocated_rows[k].Kalla = <<>>
          /\ HasPromoted(art) /\ AutoStoreRowsOf(art) # {} /\ RefillRowsOf(art) = {}

\* C28: the mattered flag of a near-miss record is fixed by the order line that
\* emitted it, whether or not the (order id, line id) pairs of the order lines
\* are unique: once a record has its flag no later step changes it, and every
\* returned record has a flag.
C28_FlagFixed ==
    [][ /\ \A k \in 1..Len(near_miss_rows) :
              near_miss_rows[k].Galler # "NaN" /\ k <= Len(near_miss_rows')
                 => near_miss_rows'[k].Galler = near_miss_rows[k].Galler
        /\ Returned' => \A k \in 1..Len(near_miss_rows') :
                           near_miss_rows'[k].Galler \in {"True", "False"} ]_vars

\* the units of the article's refill snapshot that the allocation accepts as
\* stock: positive quantity, location not blocked
AcceptedFreeUnits(art) ==
    {i \in FreeUnits(art) : buffer_raw[i].qty > 0 /\ ~BlockedLocation(buffer_raw[i].loc)}
AcceptedFreeQty(art) ==
    SumSeq([i \in 1..Len(buffer_raw) |->
               IF i \in AcceptedFreeUnits(art) THEN buffer_raw[i].qty ELSE 0])

\* C29: the refill counts only units the allocation accepts as stock (positive
\* quantity, location not blocked): the unit estimate of a refill row is at most
\* the number of such units of the article's snapshot, and the row says "Ja"
\* only if their total quantity covers its shortfall.
C29_RefillCountsOnlyStock ==
    pc = "refilled" =>
      \A k \in 1..Len(AllRefillRows) :
        /\ AllRefillRows[k].FIFO <= Cardinality(AcceptedFreeUnits(AllRefillRows[k].Artikel))
        /\ AllRefillRows[k].Tillrackligt = "Ja"
              => AcceptedFreeQty(AllRefillRows[k].Artikel) >= AllRefillRows[k].Behov

(***************************************************************************)
(* C30                                                                     *)
(***************************************************************************)
\* the two reports are what calculate_refill gives for the cached result and some
\* buffer file
ReportsOfCachedResult ==
    \E b \in GuiBufferTables :
        /\ app.last_refill_hp_df = RefillMainPick(app.last_result_df, b, TRUE, <<>>, <<>>)
        /\ app.last_refill_autostore_df =
               RefillAutoStore(app.last_result_df, b, TRUE, <<>>, <<>>)

\* C30: after any sequence of "run allocation" actions, each of which may fail at
\* reading the files, at the allocation or at the refill calculation, the refill
\* reports that "open refill" offers were computed from the allocation result that is
\* cached and offered by "open result"; a report of an earlier run is never offered
\* together with the result of a later run.
C30_ReportsOfCachedResult ==
    (calls = <<>> /\ app.has_result /\ open_refill_offered) => ReportsOfCachedResult

====
